---- MODULE Spec2Model ----
(***************************************************************************)
(* A model of the NES emulator core: the 6502 CPU (cpu/cpu.rs, decode.rs,  *)
(* deref.rs, exec.rs), the memory bus (mem/bus.rs), the controllers, the   *)
(* NROM and MMC1 cartridges (cart/mapper0.rs, cart/mapper1.rs) and the PPU *)
(* (ppu/ppu.rs), driven by system_tick and by the bus.                     *)
(*                                                                         *)
(* A Rust function f(&mut Cpu, args) -> Result<T> is an operator           *)
(* f(c, args) whose value is the record [cpu, val, err]: the Cpu after the *)
(* call, the value returned, and "" for Ok or the name of the error.  A    *)
(* panic is the error "panic".  Byte arrays that the code zero-fills are   *)
(* functions from the indices that hold a non-zero byte.                   *)
(***************************************************************************)
EXTENDS Integers, Sequences, FiniteSets, TLC

VARIABLES cpu, overflow_checks, result, hist

vars == <<cpu, overflow_checks, result, hist>>

(***************************************************************************)
(* Bounds of the model.                                                    *)
(***************************************************************************)
\* system ticks explored by Spec
MaxTicks == 75
\* writes of the pub field Cpu::interrupt by the host explored by Spec
MaxHostInterrupts == 2
\* system ticks explored by SpecFrame: two frames and the start of a third
MaxFrameTicks == 178400
\* calls of Cpu::write on the MMC1 serial port in a run
MaxMmc1Writes == 9
\* calls on controller 1 (stores, loads, key presses and releases) in a run
MaxPadCalls == 13
\* system ticks of the program that polls PPUSTATUS: up to the first vertical
\* blank (tick 82,183) and the instructions after it
MaxStatusTicks == 82300
\* accesses of PPUCTRL, PPUSTATUS, PPUADDR and PPUDATA in a run
MaxVramCalls == 6
\* accesses of OAMADDR, OAMDATA, OAMDMA and of the RAM byte $0002 in a run
MaxOamCalls == 5
\* instructions run one after the other from a prepared CPU state
MaxInstrSteps == 2
\* instructions run in the ADC machine
MaxAdcSteps == 1
\* accesses of the nametable window in a run
MaxMirrorCalls == 2
\* reads of the PRG window in a run
MaxPrgReads == 2
\* PPU ticks run from dot 257 of a scanline in the sprite machine
MaxSpriteTicks == 1
\* calls of system_tick in a run with rendering off: past dot 304 of the
\* first pre-render scanline
MaxIdleTicks == 89400
MaxBankCalls == 6
MaxPaletteTicks == 400

(***************************************************************************)
(* Integer helpers for the fixed-width arithmetic of the code.             *)
(***************************************************************************)
RECURSIVE Pow2(_)
Pow2(n) == IF n = 0 THEN 1 ELSE 2 * Pow2(n - 1)

\* x >> n and the bit field x[msb:lsb] (bitfield crate getters)
Shr(x, n) == x \div Pow2(n)
GetBits(x, msb, lsb) == (x \div Pow2(lsb)) % Pow2(msb - lsb + 1)
\* bitfield crate setter: the value is truncated to the field
SetBits(x, msb, lsb, v) ==
    x - GetBits(x, msb, lsb) * Pow2(lsb) + (v % Pow2(msb - lsb + 1)) * Pow2(lsb)
Bit(x, n) == (x \div Pow2(n)) % 2

RECURSIVE BitAnd(_, _)
BitAnd(a, b) ==
    IF a = 0 \/ b = 0 THEN 0
    ELSE (a % 2) * (b % 2) + 2 * BitAnd(a \div 2, b \div 2)

RECURSIVE BitXor(_, _)
BitXor(a, b) ==
    IF a = 0 THEN b
    ELSE IF b = 0 THEN a
    ELSE ((a + b) % 2) + 2 * BitXor(a \div 2, b \div 2)

RECURSIVE BitOr(_, _)
BitOr(a, b) ==
    IF a = 0 THEN b
    ELSE IF b = 0 THEN a
    ELSE (IF (a % 2) + (b % 2) > 0 THEN 1 ELSE 0) + 2 * BitOr(a \div 2, b \div 2)

\* a zero-initialised byte array: read and write
MemGet(mem, i) == IF i \in DOMAIN mem THEN mem[i] ELSE 0
MemSet(mem, i, b) ==
    IF b = 0 THEN [a \in (DOMAIN mem) \ {i} |-> mem[a]]
    ELSE [a \in (DOMAIN mem) \cup {i} |-> IF a = i THEN b ELSE mem[a]]
EmptyMem == [a \in {} |-> 0]

\* Result values
Ok(c, v) == [cpu |-> c, val |-> v, err |-> ""]
Err(c, e) == [cpu |-> c, val |-> 0, err |-> e]

\* the ? operator: on Ok continue with F(cpu, val), else return the error
Try(r, F(_, _)) == IF r.err # "" THEN r ELSE F(r.cpu, r.val)

\* an integer result stored into a w-valued unsigned type: in range, or the
\* overflow panics (overflow checks on) or wraps (off)
Wrapped(c, v, w) ==
    IF v >= 0 /\ v < w THEN Ok(c, v)
    ELSE IF overflow_checks THEN Err(c, "panic") ELSE Ok(c, v % w)

(***************************************************************************)
(* mem/utils.rs                                                            *)
(***************************************************************************)
hi_byte(addr) == (addr \div 256) % 256
lo_byte(addr) == addr % 256
make_address(lo, hi) == (hi % 256) * 256 + (lo % 256)
page_num(addr) == (addr \div 256) * 256

(***************************************************************************)
(* cpu/reg.rs: the StatusFlags constants, as the source writes them.       *)
(***************************************************************************)
CARRY == 1
ZERO == 2
INTERRUPT_DISABLE == 4
DECIMAL == 4
BREAK == 8
UNUSED == 32
OVERFLOW == 64
NEGATIVE == 128

\* bitflags: contains / insert / remove / set
contains(status, flag) == BitAnd(status, flag) = flag
insert(status, flag) == BitOr(status, flag)
remove(status, flag) == status - BitAnd(status, flag)
set(status, flag, on) == IF on THEN insert(status, flag) ELSE remove(status, flag)

STACK_OFFSET == 256
NUM_TICKS_PER_CPU_CYCLE == 3

(***************************************************************************)
(* cart/cart.rs and cart/mapper0.rs: the NROM cartridge.  A cartridge is   *)
(* [name, prg_rom, prg_ram, chr_rom, chr_rom_len, chr_ram, mirroring,      *)
(* num_prg_banks]; name is what Cart::name returns.                        *)
(***************************************************************************)
nametable_addr_swapped(addr, mirror_type) ==
    LET a == addr % 4096 IN
    CASE mirror_type = "Horizontal" ->
            IF a \in 0..1023 \/ a \in 2048..3071 THEN a % 1024 ELSE (a % 1024) + 1024
      [] mirror_type = "Vertical" ->
            IF a \in 0..2047 THEN a % 1024 ELSE (a % 1024) + 1024
      [] mirror_type = "OneScreenLow" -> a % 1024
      [] mirror_type = "OneScreenHigh" -> (a % 1024) + 1024

nametable_addr(addr, mirror_type) ==
    LET a == addr % 4096 IN
    CASE mirror_type = "Vertical" ->
            IF a \in 0..1023 \/ a \in 2048..3071 THEN a % 1024 ELSE (a % 1024) + 1024
      [] mirror_type = "Horizontal" ->
            IF a \in 0..2047 THEN a % 1024 ELSE (a % 1024) + 1024
      [] mirror_type = "OneScreenLow" -> a % 1024
      [] mirror_type = "OneScreenHigh" -> (a % 1024) + 1024

Nrom_read_one_bank(c, addr) ==
    LET cart == c.bus.cart IN
    IF addr \in 24576..32767 THEN Ok(c, MemGet(cart.prg_ram, addr - 24576))
    ELSE IF addr \in 32768..65535 THEN Ok(c, MemGet(cart.prg_rom, addr % 16384))
    ELSE Err(c, "InvalidAddress")

\* array[index]: out of bounds panics
Indexed(c, mem, len, index) ==
    IF index < 0 \/ index >= len THEN Err(c, "panic") ELSE Ok(c, MemGet(mem, index))

Nrom_read(c, addr) ==
    LET cart == c.bus.cart IN
    IF addr \in 24576..32767 THEN Ok(c, MemGet(cart.prg_ram, addr - 24576))
    ELSE IF addr \in 32768..65535 THEN
        Ok(c, MemGet(cart.prg_rom,
                     IF cart.num_prg_banks = 1 THEN addr % 16384 ELSE addr % 32768))
    ELSE Err(c, "InvalidAddress")

Nrom_write(c, addr, byte) ==
    IF addr \in 24576..32767
    THEN Ok([c EXCEPT !.bus.cart.prg_ram = MemSet(@, addr - 24576, byte)], 0)
    ELSE IF addr \in 32768..65535 THEN Err(c, "ReadOnly")
    ELSE Err(c, "InvalidAddress")

Nrom_ppu_read(c, addr) ==
    LET cart == c.bus.cart IN
    IF addr \in 0..8191 THEN
        IF cart.chr_rom_len = 0 THEN Ok(c, MemGet(cart.chr_ram, addr))
        ELSE Indexed(c, cart.chr_rom, cart.chr_rom_len, addr)
    ELSE IF addr \in 8192..16127 THEN
        Ok(c, MemGet(c.bus.ppu.vram, nametable_addr(addr, cart.mirroring)))
    ELSE Err(c, "PpuInvalidAddress")

Nrom_ppu_write(c, addr, byte) ==
    LET cart == c.bus.cart IN
    IF addr \in 0..8191 THEN
        IF cart.chr_rom_len = 0
        THEN Ok([c EXCEPT !.bus.cart.chr_ram = MemSet(@, addr, byte)], 0)
        ELSE Err(c, "PpuReadOnly")
    ELSE IF addr \in 8192..16127 THEN
        Ok([c EXCEPT !.bus.ppu.vram =
                MemSet(@, nametable_addr(addr, cart.mirroring), byte)], 0)
    ELSE Err(c, "PpuInvalidAddress")

\* what stands for the cartridge when none was built
NoCart == [name |-> "none"]

\* the arrays come with their lengths; the result is the cartridge, or the
\* error with no cartridge
build_nrom_cart(prg_rom, prg_rom_len, chr_rom, chr_rom_len, mirroring) ==
    IF prg_rom_len = 16 * 1024 \/ prg_rom_len = 32 * 1024
    THEN [err |-> "",
          cart |-> [name |-> "NROM", prg_rom |-> prg_rom, prg_ram |-> EmptyMem,
                    chr_rom |-> chr_rom, chr_rom_len |-> chr_rom_len,
                    chr_ram |-> EmptyMem, mirroring |-> mirroring,
                    num_prg_banks |-> prg_rom_len \div (16 * 1024)]]
    ELSE [err |-> "Unsupported PRG ROM size for NROM mapper", cart |-> NoCart]

(***************************************************************************)
(* cart/mapper1.rs: the MMC1 cartridge.  It is [name, prg_rom,             *)
(* prg_rom_len, prg_ram, chr_rom, chr_rom_len, chr_ram, shift_reg,         *)
(* control, chr_bank0, chr_bank1, prg_bank, write_count, the four bank     *)
(* bases, mirror_type].  A base that wrapped below 0 (usize, overflow      *)
(* checks off) is kept as the negative number.                             *)
(***************************************************************************)
\* update_base_addr panics: "prg_rom.len() - 16K" below 0 with overflow
\* checks on
update_panics(cart) ==
    overflow_checks /\ GetBits(cart.control, 3, 2) = 3 /\ cart.prg_rom_len < 16384

update_base_addr(cart) ==
    LET mirror == GetBits(cart.control, 1, 0)
        mode == GetBits(cart.control, 3, 2)
        chr0 == IF Bit(cart.control, 4) = 0
                THEN Shr(cart.chr_bank0, 1) * 8192
                ELSE cart.chr_bank0 * 4096
        chr1 == IF Bit(cart.control, 4) = 0
                THEN chr0 + 4096
                ELSE cart.chr_bank1 * 4096
        prg0 == CASE mode \in {0, 1} -> Shr(cart.prg_bank % 16, 1) * 32768
                  [] mode = 2 -> 0
                  [] mode = 3 -> (cart.prg_bank % 16) * 16384
        prg1 == CASE mode \in {0, 1} -> prg0 + 16384
                  [] mode = 2 -> (cart.prg_bank % 16) * 16384
                  [] mode = 3 -> cart.prg_rom_len - 16384
    IN [cart EXCEPT
          !.mirror_type = CASE mirror = 0 -> "OneScreenLow"
                            [] mirror = 1 -> "OneScreenHigh"
                            [] mirror = 2 -> "Vertical"
                            [] mirror = 3 -> "Horizontal",
          !.chr_rom_bank_0_base = chr0,
          !.chr_rom_bank_1_base = chr1,
          !.prg_rom_bank_0_base = prg0,
          !.prg_rom_bank_1_base = prg1]

\* val is the index into prg_rom, -1 for an index no array holds
map_cpu_addr(cart, addr) ==
    LET base == IF BitAnd(addr, 16384) = 0 THEN cart.prg_rom_bank_0_base
                ELSE cart.prg_rom_bank_1_base
    IN IF base < 0 THEN -1 ELSE BitOr(base, addr % 16384)

map_chr_addr(cart, addr) ==
    IF BitAnd(addr, 4096) = 0
    THEN cart.chr_rom_bank_0_base + (addr % 4096)
    ELSE cart.chr_rom_bank_1_base + (addr % 4096)

Mmc1_read(c, addr) ==
    LET cart == c.bus.cart IN
    IF addr \in 24576..32767 THEN Ok(c, MemGet(cart.prg_ram, addr - 24576))
    ELSE IF addr \in 32768..65535
    THEN Indexed(c, cart.prg_rom, cart.prg_rom_len, map_cpu_addr(cart, addr))
    ELSE Err(c, "InvalidAddress")

\* the end of a reset or of a latch: the bases are recomputed from the
\* registers of cart
Mmc1_updated(c, cart) ==
    IF update_panics(cart) THEN Err(c, "panic")
    ELSE Ok([c EXCEPT !.bus.cart = update_base_addr(cart)], 0)

\* a faulty serial port: the register is filled from the low end, so the
\* first bit written ends in bit 4
Mmc1_write_msb_first(c, addr, byte) ==
    LET cart == c.bus.cart
        shift == ((cart.shift_reg * 2) % 32) + (byte % 2)
        count == cart.write_count + 1
        sel == Shr(addr, 13) % 4
    IN
    IF addr \in 24576..32767
    THEN Ok([c EXCEPT !.bus.cart.prg_ram = MemSet(@, addr - 24576, byte)], 0)
    ELSE IF addr \in 32768..65535 THEN
        IF BitAnd(byte, 128) # 0
        THEN Mmc1_updated(c, [cart EXCEPT !.write_count = 0, !.shift_reg = 0,
                                          !.control = SetBits(@, 3, 2, 3)])
        ELSE IF count = 5
        THEN Mmc1_updated(c, [cart EXCEPT
                 !.control = IF sel = 0 THEN shift ELSE @,
                 !.chr_bank0 = IF sel = 1 THEN shift ELSE @,
                 !.chr_bank1 = IF sel = 2 THEN shift ELSE @,
                 !.prg_bank = IF sel = 3 THEN shift ELSE @,
                 !.write_count = 0, !.shift_reg = 0])
        ELSE Ok([c EXCEPT !.bus.cart.shift_reg = shift,
                          !.bus.cart.write_count = count], 0)
    ELSE Err(c, "InvalidAddress")

\* a faulty reset write: the write counter is kept
Mmc1_write_reset_keeps_count(c, addr, byte) ==
    LET cart == c.bus.cart
        shift == BitOr((byte % 2) * 16, Shr(cart.shift_reg, 1))
        count == cart.write_count + 1
        sel == Shr(addr, 13) % 4
    IN
    IF addr \in 24576..32767
    THEN Ok([c EXCEPT !.bus.cart.prg_ram = MemSet(@, addr - 24576, byte)], 0)
    ELSE IF addr \in 32768..65535 THEN
        IF BitAnd(byte, 128) # 0
        THEN Mmc1_updated(c, [cart EXCEPT !.shift_reg = 0,
                                          !.control = SetBits(@, 3, 2, 3)])
        ELSE IF count = 5
        THEN Mmc1_updated(c, [cart EXCEPT
                 !.control = IF sel = 0 THEN shift ELSE @,
                 !.chr_bank0 = IF sel = 1 THEN shift ELSE @,
                 !.chr_bank1 = IF sel = 2 THEN shift ELSE @,
                 !.prg_bank = IF sel = 3 THEN shift ELSE @,
                 !.write_count = 0, !.shift_reg = 0])
        ELSE Ok([c EXCEPT !.bus.cart.shift_reg = shift,
                          !.bus.cart.write_count = count], 0)
    ELSE Err(c, "InvalidAddress")

\* a faulty register select: bits 12..11 of the address instead of 14..13
Mmc1_write_wrong_select(c, addr, byte) ==
    LET cart == c.bus.cart
        shift == BitOr((byte % 2) * 16, Shr(cart.shift_reg, 1))
        count == cart.write_count + 1
        sel == Shr(addr, 11) % 4
    IN
    IF addr \in 24576..32767
    THEN Ok([c EXCEPT !.bus.cart.prg_ram = MemSet(@, addr - 24576, byte)], 0)
    ELSE IF addr \in 32768..65535 THEN
        IF BitAnd(byte, 128) # 0
        THEN Mmc1_updated(c, [cart EXCEPT !.write_count = 0, !.shift_reg = 0,
                                          !.control = SetBits(@, 3, 2, 3)])
        ELSE IF count = 5
        THEN Mmc1_updated(c, [cart EXCEPT
                 !.control = IF sel = 0 THEN shift ELSE @,
                 !.chr_bank0 = IF sel = 1 THEN shift ELSE @,
                 !.chr_bank1 = IF sel = 2 THEN shift ELSE @,
                 !.prg_bank = IF sel = 3 THEN shift ELSE @,
                 !.write_count = 0, !.shift_reg = 0])
        ELSE Ok([c EXCEPT !.bus.cart.shift_reg = shift,
                          !.bus.cart.write_count = count], 0)
    ELSE Err(c, "InvalidAddress")

Mmc1_write(c, addr, byte) ==
    LET cart == c.bus.cart
        shift == BitOr((byte % 2) * 16, Shr(cart.shift_reg, 1))
        count == cart.write_count + 1
        sel == Shr(addr, 13) % 4
    IN
    IF addr \in 24576..32767
    THEN Ok([c EXCEPT !.bus.cart.prg_ram = MemSet(@, addr - 24576, byte)], 0)
    ELSE IF addr \in 32768..65535 THEN
        IF BitAnd(byte, 128) # 0
        THEN Mmc1_updated(c, [cart EXCEPT !.write_count = 0, !.shift_reg = 0,
                                          !.control = SetBits(@, 3, 2, 3)])
        ELSE IF count = 5
        THEN Mmc1_updated(c, [cart EXCEPT
                 !.control = IF sel = 0 THEN shift ELSE @,
                 !.chr_bank0 = IF sel = 1 THEN shift ELSE @,
                 !.chr_bank1 = IF sel = 2 THEN shift ELSE @,
                 !.prg_bank = IF sel = 3 THEN shift ELSE @,
                 !.write_count = 0, !.shift_reg = 0])
        ELSE Ok([c EXCEPT !.bus.cart.shift_reg = shift,
                          !.bus.cart.write_count = count], 0)
    ELSE Err(c, "InvalidAddress")

Mmc1_ppu_read(c, addr) ==
    LET cart == c.bus.cart IN
    IF addr \in 0..8191 THEN
        IF cart.chr_rom_len = 0
        THEN Indexed(c, cart.chr_ram, 8192, map_chr_addr(cart, addr))
        ELSE Indexed(c, cart.chr_rom, cart.chr_rom_len, map_chr_addr(cart, addr))
    ELSE IF addr \in 8192..16127 THEN
        Ok(c, MemGet(c.bus.ppu.vram, nametable_addr(addr, cart.mirror_type)))
    ELSE Err(c, "PpuInvalidAddress")

Mmc1_ppu_write(c, addr, byte) ==
    LET cart == c.bus.cart IN
    IF addr \in 0..8191 THEN
        IF cart.chr_rom_len = 0
        THEN IF map_chr_addr(cart, addr) >= 8192 THEN Err(c, "panic")
             ELSE Ok([c EXCEPT !.bus.cart.chr_ram =
                          MemSet(@, map_chr_addr(cart, addr), byte)], 0)
        ELSE Err(c, "PpuReadOnly")
    ELSE IF addr \in 8192..16127 THEN
        Ok([c EXCEPT !.bus.ppu.vram =
                MemSet(@, nametable_addr(addr, cart.mirror_type), byte)], 0)
    ELSE Err(c, "PpuInvalidAddress")

\* the cartridge of an iNES file of mapper 1 with prg_rom_len bytes of PRG
\* and chr_rom_len bytes of CHR, or the panic of its update_base_addr with
\* no cartridge
build_mmc1_cart(prg_rom, prg_rom_len, chr_rom, chr_rom_len) ==
    LET cart == [name |-> "MMC1",
                 prg_ram |-> EmptyMem, prg_rom |-> prg_rom, prg_rom_len |-> prg_rom_len,
                 chr_rom |-> chr_rom, chr_rom_len |-> chr_rom_len, chr_ram |-> EmptyMem,
                 shift_reg |-> 0, control |-> 12, chr_bank0 |-> 0, chr_bank1 |-> 0,
                 prg_bank |-> 0, write_count |-> 0,
                 prg_rom_bank_0_base |-> 0, prg_rom_bank_1_base |-> 0,
                 chr_rom_bank_0_base |-> 0, chr_rom_bank_1_base |-> 0,
                 mirror_type |-> "OneScreenLow"]
    IN IF update_panics(cart) THEN [err |-> "panic", cart |-> NoCart]
       ELSE [err |-> "", cart |-> update_base_addr(cart)]

(***************************************************************************)
(* cart/cart.rs: the calls through the Cart trait object.                  *)
(***************************************************************************)
Cart_read(c, addr) ==
    IF c.bus.cart.name = "MMC1" THEN Mmc1_read(c, addr) ELSE Nrom_read(c, addr)

Cart_write(c, addr, byte) ==
    IF c.bus.cart.name = "MMC1" THEN Mmc1_write(c, addr, byte)
    ELSE Nrom_write(c, addr, byte)

Cart_ppu_read(c, addr) ==
    IF c.bus.cart.name = "MMC1" THEN Mmc1_ppu_read(c, addr)
    ELSE Nrom_ppu_read(c, addr)

Cart_ppu_write(c, addr, byte) ==
    IF c.bus.cart.name = "MMC1" THEN Mmc1_ppu_write(c, addr, byte)
    ELSE Nrom_ppu_write(c, addr, byte)

(***************************************************************************)
(* ppu/ppu.rs: PPU memory and the memory-mapped registers.                 *)
(***************************************************************************)
NAMETABLE_OFFSET == 8192
ATTRIBUTE_TABLE_OFFSET == 9152
PALETTES_OFFSET == 16128
NUM_COLORS == 64

map_palette_addr(c, addr) ==
    LET a == (CASE addr = 16144 -> 16128
                [] addr = 16148 -> 16132
                [] addr = 16152 -> 16136
                [] addr = 16156 -> 16140
                [] OTHER -> addr) % 32
    IN IF Bit(c.bus.ppu.reg.mask, 0) = 1 THEN BitAnd(a, 48) ELSE a % 64

ppu_read(c, addr) ==
    IF addr \in 0..16127 THEN Cart_ppu_read(c, addr)
    ELSE IF addr \in 16128..16383
    THEN Ok(c, MemGet(c.bus.ppu.palettes, map_palette_addr(c, addr)))
    ELSE Err(c, "InvalidAddress")

ppu_write(c, addr, byte) ==
    IF addr \in 0..16127 THEN Cart_ppu_write(c, addr, byte)
    ELSE IF addr \in 16128..16383
    THEN Ok([c EXCEPT !.bus.ppu.palettes =
                 MemSet(@, map_palette_addr(c, addr), byte)], 0)
    ELSE Err(c, "InvalidAddress")

\* faulty: the address advances by 1 whatever PPUCTRL bit 2 says
vram_inc_always_one(c) ==
    LET v == c.bus.ppu.reg.v_addr + 1
    IN IF v > 65535
       THEN IF overflow_checks THEN Err(c, "panic")
            ELSE Ok([c EXCEPT !.bus.ppu.reg.v_addr = v % 65536], 0)
       ELSE Ok([c EXCEPT !.bus.ppu.reg.v_addr = v], 0)

\* v_addr += 32 or += 1 on a u16
vram_inc(c) ==
    LET v == c.bus.ppu.reg.v_addr + (IF Bit(c.bus.ppu.reg.control, 2) = 1 THEN 32 ELSE 1)
    IN IF v > 65535
       THEN IF overflow_checks THEN Err(c, "panic")
            ELSE Ok([c EXCEPT !.bus.ppu.reg.v_addr = v % 65536], 0)
       ELSE Ok([c EXCEPT !.bus.ppu.reg.v_addr = v], 0)

\* faulty: the PPUSTATUS read leaves the write latch as it is
Ppu_read_keeps_latch(c, addr) ==
    IF addr < 8192 \/ addr > 16383 THEN Err(c, "InvalidAddress")
    ELSE LET r == addr % 8 reg == c.bus.ppu.reg IN
      CASE r \in {0, 1, 3, 5, 6} -> Err(c, "WriteOnly")
        [] r = 2 ->
             Ok([c EXCEPT !.bus.ppu.reg.status = SetBits(@, 7, 7, 0)],
                BitAnd(reg.status, 224) + (reg.ppu_data_buffer % 32))
        [] r = 4 -> Ok(c, MemGet(c.bus.ppu.oam, reg.oam_addr))
        [] r = 7 ->
             Try(ppu_read(c, reg.v_addr),
                 LAMBDA c0, byte :
                    Try(vram_inc([c0 EXCEPT !.bus.ppu.reg.ppu_data_buffer = byte]),
                        LAMBDA c1, v :
                           Ok(c1, IF reg.v_addr > 16128 THEN byte
                                  ELSE reg.ppu_data_buffer)))

Ppu_read(c, addr) ==
    IF addr < 8192 \/ addr > 16383 THEN Err(c, "InvalidAddress")
    ELSE LET r == addr % 8 reg == c.bus.ppu.reg IN
      CASE r \in {0, 1, 3, 5, 6} -> Err(c, "WriteOnly")
        [] r = 2 ->
             Ok([c EXCEPT !.bus.ppu.reg.status = SetBits(@, 7, 7, 0),
                          !.bus.ppu.reg.ppu_addr_latch = FALSE],
                BitAnd(reg.status, 224) + (reg.ppu_data_buffer % 32))
        [] r = 4 -> Ok(c, MemGet(c.bus.ppu.oam, reg.oam_addr))
        [] r = 7 ->
             Try(ppu_read(c, reg.v_addr),
                 LAMBDA c0, byte :
                    Try(vram_inc([c0 EXCEPT !.bus.ppu.reg.ppu_data_buffer = byte]),
                        LAMBDA c1, v :
                           Ok(c1, IF reg.v_addr > 16128 THEN byte
                                  ELSE reg.ppu_data_buffer)))

\* the PPUDATA write: the address advances after the store returned ret
write_then_inc(ret) ==
    Try(vram_inc(ret.cpu), LAMBDA c1, v : [cpu |-> c1, val |-> 0, err |-> ret.err])

Ppu_write(c, addr, byte) ==
    IF addr < 8192 \/ addr > 16383 THEN Err(c, "InvalidAddress")
    ELSE LET r == addr % 8 reg == c.bus.ppu.reg IN
      CASE r = 0 ->
             Ok([c EXCEPT !.bus.ppu.reg.control = byte,
                          !.bus.ppu.reg.t_addr = SetBits(@, 11, 10, GetBits(byte, 1, 0))], 0)
        [] r = 1 -> Ok([c EXCEPT !.bus.ppu.reg.mask = byte], 0)
        [] r = 2 -> Err(c, "ReadOnly")
        [] r = 3 -> Ok([c EXCEPT !.bus.ppu.reg.oam_addr = byte], 0)
        [] r = 4 -> Ok([c EXCEPT !.bus.ppu.oam = MemSet(@, reg.oam_addr, byte)], 0)
        [] r = 5 ->
             IF reg.ppu_addr_latch
             THEN Ok([c EXCEPT !.bus.ppu.reg.t_addr =
                          SetBits(SetBits(@, 9, 5, Shr(byte, 3)), 14, 12, byte % 8),
                               !.bus.ppu.reg.ppu_addr_latch = FALSE], 0)
             ELSE Ok([c EXCEPT !.bus.ppu.reg.t_addr = SetBits(@, 4, 0, Shr(byte, 3)),
                               !.bus.ppu.reg.fine_x = byte % 8,
                               !.bus.ppu.reg.ppu_addr_latch = TRUE], 0)
        [] r = 6 ->
             IF reg.ppu_addr_latch
             THEN LET t == page_num(reg.t_addr) + byte
                  IN Ok([c EXCEPT !.bus.ppu.reg.t_addr = t,
                                  !.bus.ppu.reg.v_addr = t,
                                  !.bus.ppu.reg.ppu_addr_latch = FALSE], 0)
             ELSE Ok([c EXCEPT !.bus.ppu.reg.t_addr = (@ % 256) + (byte % 64) * 256,
                               !.bus.ppu.reg.ppu_addr_latch = TRUE], 0)
        [] r = 7 -> write_then_inc(ppu_write(c, reg.v_addr, byte))

\* Write a single byte into OAM memory
oam_write(c, offset, data) ==
    [c EXCEPT !.bus.ppu.oam =
        MemSet(@, offset, IF offset % 4 = 2 THEN BitAnd(data, 227) ELSE data)]

Ppu_reset(c) ==
    [c EXCEPT !.bus.ppu.reg.control = 0,
              !.bus.ppu.reg.mask = 0,
              !.bus.ppu.reg.fine_x = 0,
              !.bus.ppu.reg.t_addr = 0,
              !.bus.ppu.reg.v_addr = 0,
              !.bus.ppu.reg.ppu_data = 0,
              !.bus.ppu.odd_frame = FALSE,
              !.bus.ppu.cycle = 0,
              !.bus.ppu.scanline = 0,
              !.bus.ppu.reg.ppu_addr_latch = FALSE,
              !.bus.ppu.reg.ppu_data_buffer = 0,
              !.bus.ppu.bg.tile_id = 0,
              !.bus.ppu.bg.tile_lsb = 0,
              !.bus.ppu.bg.tile_msb = 0,
              !.bus.ppu.bg.shift_attribute_lsb = 0,
              !.bus.ppu.bg.shift_attribute_msb = 0,
              !.bus.ppu.bg.shift_pattern_lsb = 0,
              !.bus.ppu.bg.shift_pattern_msb = 0]

(***************************************************************************)
(* ppu/ppu.rs: the dot clock.  The colours of the frame buffer are not     *)
(* kept; the colour lookup that fills it is (get_color), with its error.   *)
(***************************************************************************)
rendering_enabled(c) ==
    Bit(c.bus.ppu.reg.mask, 3) = 1 \/ Bit(c.bus.ppu.reg.mask, 4) = 1

inc_x(c) ==
    IF rendering_enabled(c) THEN
        LET v == c.bus.ppu.reg.v_addr
            v1 == SetBits(v, 4, 0, (GetBits(v, 4, 0) + 1) % 32)
        IN [c EXCEPT !.bus.ppu.reg.v_addr =
               IF GetBits(v1, 4, 0) = 0 THEN SetBits(v1, 10, 10, 1 - Bit(v1, 10)) ELSE v1]
    ELSE c

inc_y(c) ==
    IF rendering_enabled(c) THEN
        LET v == c.bus.ppu.reg.v_addr
            cy == GetBits(v, 9, 5)
            v1 == SetBits(v, 14, 12, (GetBits(v, 14, 12) + 1) % 8)
            v2 == IF GetBits(v1, 14, 12) = 0 THEN SetBits(v1, 9, 5, (cy + 1) % 30) ELSE v1
            v3 == IF GetBits(v1, 14, 12) = 0 /\ GetBits(v2, 9, 5) = 0
                  THEN SetBits(v2, 11, 11, 1 - Bit(v2, 11)) ELSE v2
            c3 == GetBits(v3, 9, 5)
        IN [c EXCEPT !.bus.ppu.reg.v_addr = SetBits(v3, 9, 5, IF c3 < 29 THEN c3 ELSE 29)]
    ELSE c

copy_x(c) ==
    IF rendering_enabled(c) THEN
        LET t == c.bus.ppu.reg.t_addr
        IN [c EXCEPT !.bus.ppu.reg.v_addr =
               SetBits(SetBits(@, 10, 10, Bit(t, 10)), 4, 0, GetBits(t, 4, 0))]
    ELSE c

\* a faulty copy: made whether or not rendering is enabled
copy_y_always(c) ==
    LET t == c.bus.ppu.reg.t_addr
    IN [c EXCEPT !.bus.ppu.reg.v_addr =
           SetBits(SetBits(SetBits(@, 14, 12, GetBits(t, 14, 12)),
                           11, 11, Bit(t, 11)), 9, 5, GetBits(t, 9, 5))]

copy_y(c) ==
    IF rendering_enabled(c) THEN
        LET t == c.bus.ppu.reg.t_addr
        IN [c EXCEPT !.bus.ppu.reg.v_addr =
               SetBits(SetBits(SetBits(@, 14, 12, GetBits(t, 14, 12)),
                               11, 11, Bit(t, 11)), 9, 5, GetBits(t, 9, 5))]
    ELSE c

load_bg_shift(c) ==
    LET bg == c.bus.ppu.bg
        attr_lo == IF bg.tile_attribute % 2 # 0 THEN 255 ELSE 0
        attr_hi == IF Bit(bg.tile_attribute, 1) # 0 THEN 255 ELSE 0
    IN [c EXCEPT !.bus.ppu.bg.shift_pattern_lsb = page_num(@) + bg.tile_lsb,
                 !.bus.ppu.bg.shift_pattern_msb = page_num(@) + bg.tile_msb,
                 !.bus.ppu.bg.shift_attribute_lsb = page_num(@) + attr_lo,
                 !.bus.ppu.bg.shift_attribute_msb = page_num(@) + attr_hi]

update_bg_shift(c) ==
    IF Bit(c.bus.ppu.reg.mask, 3) = 1 THEN
        [c EXCEPT !.bus.ppu.bg.shift_pattern_lsb = (@ * 2) % 65536,
                  !.bus.ppu.bg.shift_pattern_msb = (@ * 2) % 65536,
                  !.bus.ppu.bg.shift_attribute_lsb = (@ * 2) % 65536,
                  !.bus.ppu.bg.shift_attribute_msb = (@ * 2) % 65536]
    ELSE c

load_bg(c) ==
    LET ppu == c.bus.ppu
        v == ppu.reg.v_addr
        pattern_table_addr == IF Bit(ppu.reg.control, 4) = 1 THEN 4096 ELSE 0
        k == (ppu.cycle - 1) % 8
    IN CASE k \in {1, 3, 5} -> Ok(c, 0)
         [] k = 0 ->
              Try(ppu_read(load_bg_shift(c), BitOr(GetBits(v, 11, 0), NAMETABLE_OFFSET)),
                  LAMBDA c1, byte : Ok([c1 EXCEPT !.bus.ppu.bg.tile_id = byte], 0))
         [] k = 2 ->
              Try(ppu_read(c, BitOr(BitOr(ATTRIBUTE_TABLE_OFFSET, BitAnd(v, 3072)),
                                    BitOr(Shr(GetBits(v, 4, 0), 2),
                                          Shr(GetBits(v, 9, 5), 2) * 8))),
                  LAMBDA c1, byte :
                     LET a1 == IF Bit(GetBits(v, 9, 5), 1) # 0 THEN Shr(byte, 4) ELSE byte
                         a2 == IF Bit(GetBits(v, 4, 0), 1) # 0 THEN Shr(a1, 2) ELSE a1
                     IN Ok([c1 EXCEPT !.bus.ppu.bg.tile_attribute = a2 % 4], 0))
         [] k = 4 ->
              Try(ppu_read(c, pattern_table_addr + ppu.bg.tile_id * 16
                              + GetBits(v, 14, 12)),
                  LAMBDA c1, byte : Ok([c1 EXCEPT !.bus.ppu.bg.tile_lsb = byte], 0))
         [] k = 6 ->
              Try(ppu_read(c, pattern_table_addr + ppu.bg.tile_id * 16
                              + GetBits(v, 14, 12) + 8),
                  LAMBDA c1, byte : Ok([c1 EXCEPT !.bus.ppu.bg.tile_msb = byte], 0))
         [] k = 7 -> Ok(inc_x(c), 0)

get_color(c, palette_idx0, pixel0, bg) ==
    LET pixel == pixel0 % 4
        palette_idx == IF pixel = 0 THEN 0 ELSE palette_idx0 % 4
        idx == (IF bg THEN 0 ELSE 16) + palette_idx * 4 + pixel
    IN Try(ppu_read(c, BitOr(PALETTES_OFFSET, idx)),
           LAMBDA c1, color :
              IF color < NUM_COLORS THEN Ok(c1, color) ELSE Err(c1, "Invalid color"))

\* Read a sprite (4 bytes) from OAM memory
oam_read(c, index) ==
    LET off == index * 4 oam == c.bus.ppu.oam
    IN [y |-> MemGet(oam, off), id |-> MemGet(oam, off + 1),
        attributes |-> MemGet(oam, off + 2), x |-> MemGet(oam, off + 3)]

RECURSIVE find_sprites_from(_, _, _)
find_sprites_from(c, idx, found) ==
    IF idx >= 64 THEN [sprites |-> found, overflow |-> FALSE]
    ELSE LET sprite == oam_read(c, idx)
             sprite_height == IF Bit(c.bus.ppu.reg.control, 5) = 1 THEN 16 ELSE 8
             diff == c.bus.ppu.scanline - sprite.y
         IN IF diff >= 0 /\ diff < sprite_height
            THEN IF Len(found) < 8
                 THEN find_sprites_from(c, idx + 1,
                          Append(found, [sprite |-> sprite, row_offset |-> diff,
                                         col_offset |-> 0, is_sprite_zero |-> idx = 0]))
                 ELSE [sprites |-> found, overflow |-> TRUE]
            ELSE find_sprites_from(c, idx + 1, found)

\* a faulty evaluation: the overflow flag is never set
find_sprites_for_scanline_no_overflow(c) ==
    LET r == find_sprites_from(c, 0, <<>>)
    IN [c EXCEPT !.bus.ppu.fg.scanline_sprites = r.sprites]

find_sprites_for_scanline(c) ==
    LET r == find_sprites_from(c, 0, <<>>)
    IN [c EXCEPT !.bus.ppu.fg.scanline_sprites = r.sprites,
                 !.bus.ppu.reg.status = IF r.overflow THEN SetBits(@, 5, 5, 1) ELSE @]

update_sprites(c) ==
    IF Bit(c.bus.ppu.reg.mask, 4) = 1 THEN
        [c EXCEPT !.bus.ppu.fg.scanline_sprites =
            [i \in DOMAIN @ |->
                IF @[i].sprite.x > 0 THEN [@[i] EXCEPT !.sprite.x = @ - 1]
                ELSE IF @[i].col_offset < 8 THEN [@[i] EXCEPT !.col_offset = @ + 1]
                ELSE @[i]]]
    ELSE c

get_sprite_pixel(c, sprite, r0, c0) ==
    LET size16 == Bit(c.bus.ppu.reg.control, 5) = 1
        col == IF Bit(sprite.attributes, 6) = 0 THEN 7 - c0 ELSE c0
        r == IF Bit(sprite.attributes, 7) = 1
             THEN (IF size16 THEN 15 ELSE 7) - r0 ELSE r0
        pattern_base == IF size16 THEN (sprite.id % 2) * 4096
                        ELSE Bit(c.bus.ppu.reg.control, 3) * 4096
        tile_addr_lo == BitOr(BitOr(pattern_base,
                                    IF size16 THEN (sprite.id - (sprite.id % 2)) * 16
                                    ELSE sprite.id * 16), r)
    IN IF ~size16 /\ r0 >= 8 THEN Err(c, "panic")
       ELSE Try(ppu_read(c, tile_addr_lo),
                LAMBDA c1, lo :
                   Try(ppu_read(c1, tile_addr_lo + 8),
                       LAMBDA c2, hi : Ok(c2, Bit(hi, col) * 2 + Bit(lo, col))))

\* the loop of Ppu::tick over the pending sprites: the first opaque pixel of
\* a sprite whose countdown reached 0, or the last transparent one
RECURSIVE sprite_scan(_, _, _)
\* one pending sprite of the loop, px its pixel
sprite_scan_step(c, idx, acc, ps, px) ==
    IF px.err # "" THEN [acc EXCEPT !.err = px.err]
    ELSE IF px.val # 0
    THEN [sprite_pixel |-> px.val,
          sprite_palette |-> GetBits(ps.sprite.attributes, 1, 0),
          bg_priority |-> Bit(ps.sprite.attributes, 5) = 1,
          sprite_zero |-> ps.is_sprite_zero, err |-> ""]
    ELSE sprite_scan(c, idx + 1,
                     [sprite_pixel |-> px.val,
                      sprite_palette |-> GetBits(ps.sprite.attributes, 1, 0),
                      bg_priority |-> Bit(ps.sprite.attributes, 5) = 1,
                      sprite_zero |-> ps.is_sprite_zero, err |-> ""])

sprite_scan(c, idx, acc) ==
    LET sprites == c.bus.ppu.fg.scanline_sprites IN
    IF idx > Len(sprites) THEN acc
    ELSE IF sprites[idx].sprite.x = 0 /\ sprites[idx].col_offset < 8
    THEN sprite_scan_step(c, idx, acc, sprites[idx],
                          get_sprite_pixel(c, sprites[idx].sprite,
                                           sprites[idx].row_offset,
                                           sprites[idx].col_offset))
    ELSE sprite_scan(c, idx + 1, acc)

\* Ppu::tick, the scanlines -1..239, in the order of the code: the flags
\* cleared at (-1, 1)
render_clear_flags(c) ==
    IF c.bus.ppu.scanline = -1 /\ c.bus.ppu.cycle = 1
    THEN [c EXCEPT !.bus.ppu.reg.status = BitAnd(@, 31),
                   !.bus.ppu.fg.sprite_zero_hit = FALSE]
    ELSE c

render_background(c) ==
    IF c.bus.ppu.cycle \in 2..257 \/ c.bus.ppu.cycle \in 321..337
    THEN load_bg(update_bg_shift(c)) ELSE Ok(c, 0)

render_sprites(c) ==
    IF c.bus.ppu.cycle \in 2..257 THEN update_sprites(c) ELSE c

\* "match self.cycle"
render_cycle(c) ==
    LET cycle == c.bus.ppu.cycle
        scanline == c.bus.ppu.scanline
    IN CASE cycle = 256 -> Ok(inc_y(c), 0)
         [] cycle = 257 ->
              Ok(IF scanline >= 0
                 THEN find_sprites_for_scanline(copy_x(load_bg_shift(c)))
                 ELSE copy_x(load_bg_shift(c)), 0)
         [] cycle \in 280..304 /\ scanline = -1 -> Ok(copy_y(c), 0)
         [] cycle \in {338, 340} ->
              Try(ppu_read(c, BitOr(NAMETABLE_OFFSET,
                                    GetBits(c.bus.ppu.reg.v_addr, 11, 0))),
                  LAMBDA c1, byte : Ok([c1 EXCEPT !.bus.ppu.bg.tile_id = byte], 0))
         [] OTHER -> Ok(c, 0)

render_next_sprites(c) ==
    IF c.bus.ppu.scanline >= 0 /\ c.bus.ppu.cycle = 340
    THEN find_sprites_for_scanline(c) ELSE c

tick_render(c) ==
    Try(render_background(render_clear_flags(c)),
        LAMBDA c2, v :
           Try(render_cycle(render_sprites(c2)),
               LAMBDA c4, w : Ok(render_next_sprites(c4), 0)))

\* Ppu::tick, the background pixel of this dot; val is [pixel, palette]
background_pixel(c) ==
    LET ppu == c.bus.ppu
        bit_pos == 15 - ppu.reg.fine_x
    IN IF Bit(ppu.reg.mask, 3) = 1
       THEN [pixel |-> Bit(ppu.bg.shift_pattern_msb, bit_pos) * 2
                       + Bit(ppu.bg.shift_pattern_lsb, bit_pos),
             palette |-> Bit(ppu.bg.shift_attribute_msb, bit_pos) * 2
                         + Bit(ppu.bg.shift_attribute_lsb, bit_pos),
             bg |-> TRUE]
       ELSE [pixel |-> 0, palette |-> 0, bg |-> TRUE]

\* the priority rules and the sprite-zero hit, for the background pixel
\* back and the sprite pixel sp
priority(c, back, sp) ==
    LET ppu == c.bus.ppu
        mask == ppu.reg.mask
        bg_transparent == back.pixel = 0
        sprite_transparent == sp.sprite_pixel = 0
        use_sprite == bg_transparent \/ (~sprite_transparent /\ ~sp.bg_priority)
        zero_hit == /\ ~bg_transparent /\ ~sprite_transparent
                    /\ sp.sprite_zero /\ Bit(mask, 3) = 1 /\ Bit(mask, 4) = 1
                    /\ IF Bit(mask, 1) = 0 \/ Bit(mask, 2) = 0
                       THEN ppu.cycle \in 9..257 ELSE ppu.cycle \in 1..257
    IN IF sp.err # "" THEN Err(c, sp.err)
       ELSE Ok(IF zero_hit
               THEN [c EXCEPT !.bus.ppu.reg.status = SetBits(@, 6, 6, 1),
                              !.bus.ppu.fg.sprite_zero_hit = TRUE]
               ELSE c,
               IF use_sprite
               THEN [pixel |-> sp.sprite_pixel, palette |-> sp.sprite_palette, bg |-> FALSE]
               ELSE back)

\* Ppu::tick, the pixel of this dot: background, sprites, priority and the
\* sprite-zero hit; val is [pixel, palette, bg]
tick_pixel(c) ==
    IF Bit(c.bus.ppu.reg.mask, 4) = 0
    THEN Ok(c, background_pixel(c))
    ELSE priority(c, background_pixel(c),
                  sprite_scan(c, 1, [sprite_pixel |-> 0, sprite_palette |-> 0,
                                     bg_priority |-> FALSE, sprite_zero |-> FALSE,
                                     err |-> ""]))

\* a faulty end of dot: the frame is returned at the end of every scanline
end_of_dot_every_line(c) ==
    LET cycle == c.bus.ppu.cycle
        scanline == c.bus.ppu.scanline
        wrap == cycle + 1 >= 341
        last == wrap /\ scanline + 1 >= 261
    IN Ok([c EXCEPT
             !.bus.ppu.cycle = IF wrap THEN 0 ELSE cycle + 1,
             !.bus.ppu.scanline = IF wrap THEN (IF last THEN -1 ELSE scanline + 1) ELSE @,
             !.bus.ppu.odd_frame = IF last THEN ~@ ELSE @], wrap)

\* a faulty end of dot: the dot counter wraps one dot late
end_of_dot_late_wrap(c) ==
    LET cycle == c.bus.ppu.cycle
        scanline == c.bus.ppu.scanline
        wrap == cycle + 1 > 341
        frame == wrap /\ scanline + 1 >= 261
    IN Ok([c EXCEPT
             !.bus.ppu.cycle = IF wrap THEN 0 ELSE cycle + 1,
             !.bus.ppu.scanline = IF wrap THEN (IF frame THEN -1 ELSE scanline + 1) ELSE @,
             !.bus.ppu.odd_frame = IF frame THEN ~@ ELSE @], frame)

\* the end of Ppu::tick: the dot and scanline counters advance; val is TRUE
\* when the frame is done
end_of_dot(c) ==
    LET cycle == c.bus.ppu.cycle
        scanline == c.bus.ppu.scanline
        wrap == cycle + 1 >= 341
        frame == wrap /\ scanline + 1 >= 261
    IN Ok([c EXCEPT
             !.bus.ppu.cycle = IF wrap THEN 0 ELSE cycle + 1,
             !.bus.ppu.scanline = IF wrap THEN (IF frame THEN -1 ELSE scanline + 1) ELSE @,
             !.bus.ppu.odd_frame = IF frame THEN ~@ ELSE @], frame)

\* Ppu::tick, the start of vblank; val is the interrupt returned ("None" or
\* "NonMaskable")
tick_vblank(c) ==
    IF c.bus.ppu.scanline = 241 /\ c.bus.ppu.cycle = 1
    THEN Ok([c EXCEPT !.bus.ppu.reg.status = SetBits(@, 7, 7, 1)],
            IF Bit(c.bus.ppu.reg.control, 7) = 1 THEN "NonMaskable" ELSE "None")
    ELSE Ok(c, "None")

\* the pixel px stored into the frame buffer
tick_buffer(c, px) ==
    IF /\ c.bus.ppu.cycle > 0 /\ rendering_enabled(c)
       /\ c.bus.ppu.scanline \in 0..239 /\ c.bus.ppu.cycle - 1 < 256
    THEN get_color(c, px.palette, px.pixel, px.bg)
    ELSE Ok(c, 0)

\* Ppu::tick; val is [frame, int]: whether a frame is returned and the
\* interrupt returned ("None" or "NonMaskable")
Ppu_tick(c) ==
    Try(IF c.bus.ppu.scanline >= -1 /\ c.bus.ppu.scanline < 240
        THEN tick_render(c) ELSE Ok(c, 0),
        LAMBDA c1, v :
           Try(tick_vblank(c1),
               LAMBDA c2, ret_int :
                  Try(tick_pixel(c2),
                      LAMBDA c3, px :
                         Try(tick_buffer(c3, px),
                             LAMBDA c4, color :
                                Try(end_of_dot(c4),
                                    LAMBDA c5, frame :
                                       Ok(c5, [frame |-> frame, int |-> ret_int]))))))

(***************************************************************************)
(* controller.rs and mem/ram.rs, mem/bus.rs: the CPU's address space.  A   *)
(* controller slot p ("p1" or "p2") is [present, inputs, read_state,       *)
(* strobe]; present is FALSE for None.                                     *)
(***************************************************************************)
Controller_read(c, p) ==
    Ok([c EXCEPT !.bus[p].read_state = Shr(@, 1)], c.bus[p].read_state % 2)

Controller_write(c, p, value) ==
    Ok([c EXCEPT !.bus[p].strobe = (value % 2) # 0,
                 !.bus[p].read_state = c.bus[p].inputs], 0)

Controller_input(c, p, input) == [c EXCEPT !.bus[p].inputs = insert(@, input)]

Controller_remove_input(c, p, input) == [c EXCEPT !.bus[p].inputs = remove(@, input)]

Controller_clear(c, p) == [c EXCEPT !.bus[p].inputs = 0]

make_controller == [present |-> TRUE, inputs |-> 0, read_state |-> 0, strobe |-> TRUE]

Ram_read(c, addr) ==
    IF addr > 8191 THEN Err(c, "InvalidAddress")
    ELSE Ok(c, MemGet(c.bus.ram, addr % 2048))

Ram_write(c, addr, byte) ==
    IF addr > 8191 THEN Err(c, "InvalidAddress")
    ELSE Ok([c EXCEPT !.bus.ram = MemSet(@, addr % 2048, byte)], 0)

MemoryBus_read(c, addr) ==
    CASE addr \in 0..8191 -> Ram_read(c, addr)
      [] addr \in 8192..16383 -> Ppu_read(c, addr)
      [] addr \in 16384..16405 -> Ok(c, 0)
      [] addr = 16406 -> IF c.bus.p1.present THEN Controller_read(c, "p1") ELSE Ok(c, 0)
      [] addr = 16407 -> IF c.bus.p2.present THEN Controller_read(c, "p2") ELSE Ok(c, 0)
      [] addr \in 16416..65535 -> Cart_read(c, addr)
      [] OTHER -> Err(c, "InvalidAddress")

MemoryBus_write(c, addr, byte) ==
    CASE addr \in 0..8191 -> Ram_write(c, addr, byte)
      [] addr \in 8192..16383 -> Ppu_write(c, addr, byte)
      [] addr = 16406 ->
            IF c.bus.p1.present THEN Controller_write(c, "p1", byte) ELSE Ok(c, 0)
      [] addr = 16407 ->
            IF c.bus.p2.present THEN Controller_write(c, "p2", byte) ELSE Ok(c, 0)
      [] addr \in 16384..16405 -> Ok(c, 0)
      [] addr \in 16416..65535 -> Cart_write(c, addr, byte)
      [] OTHER -> Err(c, "InvalidAddress")

(***************************************************************************)
(* cpu/cpu.rs: Cpu::read and Cpu::write (the OAM DMA at $4014).            *)
(***************************************************************************)
Cpu_read(c, addr) == MemoryBus_read(c, addr)

\* the loop "for off in 0..=0xFF" of Cpu::write over the offsets
\* first..last, in order (the range is halved to keep the evaluation
\* shallow)
RECURSIVE dma_copy(_, _, _, _)
dma_copy(c, byte, first, last) ==
    IF first = last
    THEN Try(Cpu_read(c, make_address(first, byte)),
             LAMBDA c1, data : Ok(oam_write(c1, first, data), 0))
    ELSE LET mid == (first + last) \div 2 IN
         Try(dma_copy(c, byte, first, mid),
             LAMBDA c1, v : dma_copy(c1, byte, mid + 1, last))

Cpu_write(c, addr, byte) ==
    IF addr = 16404
    THEN Try(dma_copy(c, byte, 0, 255),
             LAMBDA c1, v :
                Ok([c1 EXCEPT !.cycles_left =
                        IF c1.num_cpu_cycles % 2 = 1 THEN 513 ELSE 512], 0))
    ELSE MemoryBus_write(c, addr, byte)

(***************************************************************************)
(* cpu/exec.rs: the stack.                                                 *)
(***************************************************************************)
push_stack(c, byte) ==
    Try(Cpu_write(c, c.reg.sp + STACK_OFFSET, byte),
        LAMBDA c1, v :
           Try(Wrapped(c1, c1.reg.sp - 1, 256),
               LAMBDA c2, sp : Ok([c2 EXCEPT !.reg.sp = sp], 0)))

push_stack_addr(c, addr) ==
    Try(push_stack(c, hi_byte(addr)),
        LAMBDA c1, v : push_stack(c1, lo_byte(addr)))

pop_stack(c) ==
    Try(Wrapped(c, c.reg.sp + 1, 256),
        LAMBDA c1, sp :
           Cpu_read([c1 EXCEPT !.reg.sp = sp], sp + STACK_OFFSET))

pop_stack_addr(c) ==
    Try(pop_stack(c),
        LAMBDA c1, lo :
           Try(pop_stack(c1), LAMBDA c2, hi : Ok(c2, make_address(lo, hi))))

(***************************************************************************)
(* cpu/decode.rs: the opcode matrix and the decoder.  An instruction is    *)
(* [op, mode, arg]: the opcode, the AddressingMode variant and its         *)
(* operand (0 when the variant has none).                                  *)
(***************************************************************************)
LOOKUP ==
    <<<<"BRK", "Imp", 7>>, <<"ORA", "XInd", 6>>, <<"INVALID", "Imp", 0>>, <<"INVALID", "Imp", 0>>,
       <<"NOP", "Zpg", 3>>, <<"ORA", "Zpg", 3>>, <<"ASL", "Zpg", 5>>, <<"INVALID", "Imp", 0>>,
       <<"PHP", "Imp", 3>>, <<"ORA", "Imm", 2>>, <<"ASL", "Acc", 2>>, <<"INVALID", "Imp", 0>>,
       <<"INVALID", "Imp", 0>>, <<"ORA", "Abs", 4>>, <<"ASL", "Abs", 6>>, <<"INVALID", "Imp", 0>>,
       <<"BPL", "Rel", 2>>, <<"ORA", "IndY", 5>>, <<"INVALID", "Imp", 0>>, <<"INVALID", "Imp", 0>>,
       <<"NOP", "ZpgX", 4>>, <<"ORA", "ZpgX", 4>>, <<"ASL", "ZpgX", 6>>, <<"INVALID", "Imp", 0>>,
       <<"CLC", "Imp", 2>>, <<"ORA", "AbsY", 4>>, <<"NOP", "Imp", 2>>, <<"INVALID", "Imp", 0>>,
       <<"INVALID", "Imp", 0>>, <<"ORA", "AbsX", 4>>, <<"ASL", "AbsX", 7>>, <<"INVALID", "Imp", 0>>,
       <<"JSR", "Abs", 6>>, <<"AND", "XInd", 6>>, <<"INVALID", "Imp", 0>>, <<"INVALID", "Imp", 0>>,
       <<"BIT", "Zpg", 3>>, <<"AND", "Zpg", 3>>, <<"ROL", "Zpg", 5>>, <<"INVALID", "Imp", 0>>,
       <<"PLP", "Imp", 4>>, <<"AND", "Imm", 2>>, <<"ROL", "Acc", 2>>, <<"INVALID", "Imp", 0>>,
       <<"BIT", "Abs", 4>>, <<"AND", "Abs", 4>>, <<"ROL", "Abs", 6>>, <<"INVALID", "Imp", 0>>,
       <<"BMI", "Rel", 2>>, <<"AND", "IndY", 5>>, <<"INVALID", "Imp", 0>>, <<"INVALID", "Imp", 0>>,
       <<"NOP", "ZpgX", 4>>, <<"AND", "ZpgX", 4>>, <<"ROL", "ZpgX", 6>>, <<"INVALID", "Imp", 0>>,
       <<"SEC", "Imp", 2>>, <<"AND", "AbsY", 4>>, <<"NOP", "Imp", 2>>, <<"INVALID", "Imp", 0>>,
       <<"INVALID", "Imp", 0>>, <<"AND", "AbsX", 4>>, <<"ROL", "AbsX", 7>>, <<"INVALID", "Imp", 0>>,
       <<"RTI", "Imp", 6>>, <<"EOR", "XInd", 6>>, <<"INVALID", "Imp", 0>>, <<"INVALID", "Imp", 0>>,
       <<"NOP", "Zpg", 3>>, <<"EOR", "Zpg", 3>>, <<"LSR", "Zpg", 5>>, <<"INVALID", "Imp", 0>>,
       <<"PHA", "Imp", 3>>, <<"EOR", "Imm", 2>>, <<"LSR", "Acc", 2>>, <<"INVALID", "Imp", 0>>,
       <<"JMP", "Abs", 3>>, <<"EOR", "Abs", 4>>, <<"LSR", "Abs", 6>>, <<"INVALID", "Imp", 0>>,
       <<"BVC", "Rel", 2>>, <<"EOR", "IndY", 5>>, <<"INVALID", "Imp", 0>>, <<"INVALID", "Imp", 0>>,
       <<"NOP", "ZpgX", 4>>, <<"EOR", "ZpgX", 4>>, <<"LSR", "ZpgX", 6>>, <<"INVALID", "Imp", 0>>,
       <<"CLI", "Imp", 2>>, <<"EOR", "AbsY", 4>>, <<"NOP", "Imp", 2>>, <<"INVALID", "Imp", 0>>,
       <<"INVALID", "Imp", 0>>, <<"EOR", "AbsX", 4>>, <<"LSR", "AbsX", 7>>, <<"INVALID", "Imp", 0>>,
       <<"RTS", "Imp", 6>>, <<"ADC", "XInd", 6>>, <<"INVALID", "Imp", 0>>, <<"INVALID", "Imp", 0>>,
       <<"NOP", "Zpg", 3>>, <<"ADC", "Zpg", 3>>, <<"ROR", "Zpg", 5>>, <<"INVALID", "Imp", 0>>,
       <<"PLA", "Imp", 4>>, <<"ADC", "Imm", 2>>, <<"ROR", "Acc", 2>>, <<"INVALID", "Imp", 0>>,
       <<"JMP", "Ind", 5>>, <<"ADC", "Abs", 4>>, <<"ROR", "Abs", 6>>, <<"INVALID", "Imp", 0>>,
       <<"BVS", "Rel", 2>>, <<"ADC", "IndY", 5>>, <<"INVALID", "Imp", 0>>, <<"INVALID", "Imp", 0>>,
       <<"NOP", "ZpgX", 4>>, <<"ADC", "ZpgX", 4>>, <<"ROR", "ZpgX", 6>>, <<"INVALID", "Imp", 0>>,
       <<"SEI", "Imp", 2>>, <<"ADC", "AbsY", 4>>, <<"NOP", "Imp", 2>>, <<"INVALID", "Imp", 0>>,
       <<"INVALID", "Imp", 0>>, <<"ADC", "AbsX", 4>>, <<"ROR", "AbsX", 7>>, <<"INVALID", "Imp", 0>>,
       <<"NOP", "Imm", 2>>, <<"STA", "XInd", 6>>, <<"INVALID", "Imp", 0>>, <<"INVALID", "Imp", 0>>,
       <<"STY", "Zpg", 3>>, <<"STA", "Zpg", 3>>, <<"STX", "Zpg", 3>>, <<"INVALID", "Imp", 0>>,
       <<"DEY", "Imp", 2>>, <<"NOP", "Imm", 2>>, <<"TXA", "Imp", 2>>, <<"INVALID", "Imp", 0>>,
       <<"STY", "Abs", 4>>, <<"STA", "Abs", 4>>, <<"STX", "Abs", 4>>, <<"INVALID", "Imp", 0>>,
       <<"BCC", "Rel", 2>>, <<"STA", "IndY", 6>>, <<"INVALID", "Imp", 0>>, <<"INVALID", "Imp", 0>>,
       <<"STY", "ZpgX", 4>>, <<"STA", "ZpgX", 4>>, <<"STX", "ZpgY", 4>>, <<"INVALID", "Imp", 0>>,
       <<"TYA", "Imp", 2>>, <<"STA", "AbsY", 5>>, <<"TXS", "Imp", 2>>, <<"INVALID", "Imp", 0>>,
       <<"INVALID", "Imp", 0>>, <<"STA", "AbsX", 5>>, <<"INVALID", "Imp", 0>>, <<"INVALID", "Imp", 0>>,
       <<"LDY", "Imm", 2>>, <<"LDA", "XInd", 6>>, <<"LDX", "Imm", 2>>, <<"INVALID", "Imp", 0>>,
       <<"LDY", "Zpg", 3>>, <<"LDA", "Zpg", 3>>, <<"LDX", "Zpg", 3>>, <<"INVALID", "Imp", 0>>,
       <<"TAY", "Imp", 2>>, <<"LDA", "Imm", 2>>, <<"TAX", "Imp", 2>>, <<"INVALID", "Imp", 0>>,
       <<"LDY", "Abs", 4>>, <<"LDA", "Abs", 4>>, <<"LDX", "Abs", 4>>, <<"INVALID", "Imp", 0>>,
       <<"BCS", "Rel", 2>>, <<"LDA", "IndY", 5>>, <<"INVALID", "Imp", 0>>, <<"INVALID", "Imp", 0>>,
       <<"LDY", "ZpgX", 4>>, <<"LDA", "ZpgX", 4>>, <<"LDX", "ZpgY", 4>>, <<"INVALID", "Imp", 0>>,
       <<"CLV", "Imp", 2>>, <<"LDA", "AbsY", 4>>, <<"TSX", "Imp", 2>>, <<"INVALID", "Imp", 0>>,
       <<"LDY", "AbsX", 4>>, <<"LDA", "AbsX", 4>>, <<"LDX", "AbsY", 4>>, <<"INVALID", "Imp", 0>>,
       <<"CPY", "Imm", 2>>, <<"CMP", "XInd", 6>>, <<"INVALID", "Imp", 0>>, <<"INVALID", "Imp", 0>>,
       <<"CPY", "Zpg", 3>>, <<"CMP", "Zpg", 3>>, <<"DEC", "Zpg", 5>>, <<"INVALID", "Imp", 0>>,
       <<"INY", "Imp", 2>>, <<"CMP", "Imm", 2>>, <<"DEX", "Imp", 2>>, <<"INVALID", "Imp", 0>>,
       <<"CPY", "Abs", 4>>, <<"CMP", "Abs", 4>>, <<"DEC", "Abs", 6>>, <<"INVALID", "Imp", 0>>,
       <<"BNE", "Rel", 2>>, <<"CMP", "IndY", 5>>, <<"INVALID", "Imp", 0>>, <<"INVALID", "Imp", 0>>,
       <<"NOP", "ZpgX", 4>>, <<"CMP", "ZpgX", 4>>, <<"DEC", "ZpgX", 6>>, <<"INVALID", "Imp", 0>>,
       <<"CLD", "Imp", 2>>, <<"CMP", "AbsY", 4>>, <<"NOP", "Imp", 2>>, <<"INVALID", "Imp", 0>>,
       <<"INVALID", "Imp", 0>>, <<"CMP", "AbsX", 4>>, <<"DEC", "AbsX", 7>>, <<"INVALID", "Imp", 0>>,
       <<"CPX", "Imm", 2>>, <<"SBC", "XInd", 6>>, <<"INVALID", "Imp", 0>>, <<"INVALID", "Imp", 0>>,
       <<"CPX", "Zpg", 3>>, <<"SBC", "Zpg", 3>>, <<"INC", "Zpg", 5>>, <<"INVALID", "Imp", 0>>,
       <<"INX", "Imp", 2>>, <<"SBC", "Imm", 2>>, <<"NOP", "Imp", 2>>, <<"INVALID", "Imp", 0>>,
       <<"CPX", "Abs", 4>>, <<"SBC", "Abs", 4>>, <<"INC", "Abs", 6>>, <<"INVALID", "Imp", 0>>,
       <<"BEQ", "Rel", 2>>, <<"SBC", "IndY", 5>>, <<"INVALID", "Imp", 0>>, <<"INVALID", "Imp", 0>>,
       <<"NOP", "ZpgX", 4>>, <<"SBC", "ZpgX", 4>>, <<"INC", "ZpgX", 6>>, <<"INVALID", "Imp", 0>>,
       <<"SED", "Imp", 2>>, <<"SBC", "AbsY", 4>>, <<"NOP", "Imp", 2>>, <<"INVALID", "Imp", 0>>,
       <<"INVALID", "Imp", 0>>, <<"SBC", "AbsX", 4>>, <<"INC", "AbsX", 7>>, <<"INVALID", "Imp", 0>>>>

address_mode_to_mode(am) ==
    CASE am = "Accumulator" -> "Acc"
      [] am = "Absolute" -> "Abs"
      [] am = "AbsoluteX" -> "AbsX"
      [] am = "AbsoluteY" -> "AbsY"
      [] am = "Immediate" -> "Imm"
      [] am = "Implied" -> "Imp"
      [] am = "Indirect" -> "Ind"
      [] am = "XIndirect" -> "XInd"
      [] am = "IndirectY" -> "IndY"
      [] am = "Relative" -> "Rel"
      [] am = "ZeroPage" -> "Zpg"
      [] am = "ZeroPageX" -> "ZpgX"
      [] am = "ZeroPageY" -> "ZpgY"

\* CYCLE_LOOKUP: the matrix is inserted in row order, a later entry of the
\* same (opcode, mode) replacing an earlier one
num_cycles_for_instr(i) ==
    LET hits == {k \in 1..256 : LOOKUP[k][1] = i.op
                                /\ LOOKUP[k][2] = address_mode_to_mode(i.mode)}
    IN LOOKUP[CHOOSE k \in hits : \A j \in hits : j <= k][3]

read_next_byte(c) ==
    Try(MemoryBus_read(c, c.reg.pc),
        LAMBDA c1, byte :
           Try(Wrapped(c1, c1.reg.pc + 1, 65536),
               LAMBDA c2, pc : Ok([c2 EXCEPT !.reg.pc = pc], byte)))

read_little_endian_u16(c) ==
    Try(read_next_byte(c),
        LAMBDA c1, lo :
           Try(read_next_byte(c1), LAMBDA c2, hi : Ok(c2, make_address(lo, hi))))

decode_instr(c) ==
    Try(read_next_byte(c),
        LAMBDA c1, next_instr :
           LET opcode == LOOKUP[next_instr + 1][1]
               mode == LOOKUP[next_instr + 1][2]
               am == CASE mode = "Acc" -> "Accumulator"
                       [] mode = "Abs" -> "Absolute"
                       [] mode = "AbsX" -> "AbsoluteX"
                       [] mode = "AbsY" -> "AbsoluteY"
                       [] mode = "Imm" -> "Immediate"
                       [] mode = "Imp" -> "Implied"
                       [] mode = "Ind" -> "Indirect"
                       [] mode = "XInd" -> "XIndirect"
                       [] mode = "IndY" -> "IndirectY"
                       [] mode = "Rel" -> "Relative"
                       [] mode = "Zpg" -> "ZeroPage"
                       [] mode = "ZpgX" -> "ZeroPageX"
                       [] mode = "ZpgY" -> "ZeroPageY"
               Instr(c2, arg) == Ok(c2, [op |-> opcode, mode |-> am, arg |-> arg])
           IN IF opcode = "INVALID" THEN Err(c1, "InvalidOpcode")
              ELSE IF mode \in {"Acc", "Imp"} THEN Instr(c1, 0)
              ELSE IF mode \in {"Abs", "AbsX", "AbsY", "Ind"}
              THEN Try(read_little_endian_u16(c1), Instr)
              ELSE Try(read_next_byte(c1), Instr))

\* fetch_instr: the decoded instruction with its base cycle count;
\* val is [i, ncycles]
fetch_instr(c) ==
    Try(decode_instr(c),
        LAMBDA c1, i : Ok(c1, [i |-> i, ncycles |-> num_cycles_for_instr(i)]))

(***************************************************************************)
(* cpu/deref.rs: addressing modes.                                         *)
(***************************************************************************)
is_negative(val) == val >= 128

effective_addr(am, c) ==
    CASE am.mode = "Absolute" -> Ok(c, am.arg)
      [] am.mode = "AbsoluteX" -> Wrapped(c, am.arg + c.reg.x, 65536)
      [] am.mode = "AbsoluteY" -> Ok(c, (am.arg + c.reg.y) % 65536)
      [] am.mode = "XIndirect" ->
            Try(MemoryBus_read(c, (am.arg + c.reg.x) % 256),
                LAMBDA c1, lo :
                   Try(MemoryBus_read(c1, (am.arg + c1.reg.x + 1) % 256),
                       LAMBDA c2, hi : Ok(c2, make_address(lo, hi))))
      [] am.mode = "IndirectY" ->
            Try(MemoryBus_read(c, am.arg),
                LAMBDA c1, lo :
                   Try(MemoryBus_read(c1, (am.arg + 1) % 256),
                       LAMBDA c2, hi :
                          Ok(c2, (make_address(lo, hi) + c2.reg.y) % 65536)))
      [] am.mode = "ZeroPage" -> Ok(c, am.arg)
      [] am.mode = "ZeroPageX" -> Ok(c, (am.arg + c.reg.x) % 256)
      [] am.mode = "ZeroPageY" -> Ok(c, (am.arg + c.reg.y) % 256)
      [] OTHER -> Err(c, "panic")

deref_byte(am, c) ==
    CASE am.mode = "Accumulator" -> Ok(c, c.reg.a)
      [] am.mode = "Immediate" -> Ok(c, am.arg)
      [] am.mode \in {"Implied", "Indirect", "Relative"} -> Err(c, "panic")
      [] OTHER -> Try(effective_addr(am, c), LAMBDA c1, addr : MemoryBus_read(c1, addr))

deref_address(am, c) ==
    CASE am.mode = "Indirect" ->
            Try(MemoryBus_read(c, am.arg),
                LAMBDA c1, lo :
                   Try(MemoryBus_read(c1, IF am.arg % 256 = 255
                                          THEN page_num(am.arg) ELSE am.arg + 1),
                       LAMBDA c2, hi : Ok(c2, make_address(lo, hi))))
      [] am.mode = "Absolute" -> Ok(c, am.arg)
      [] am.mode = "Relative" ->
            IF is_negative(am.arg)
            THEN Wrapped(c, c.reg.pc - (256 - am.arg), 65536)
            ELSE Wrapped(c, c.reg.pc + am.arg, 65536)
      [] OTHER -> Err(c, "panic")

(***************************************************************************)
(* cpu/exec.rs: the instructions.  val is the number of extra cycles.      *)
(***************************************************************************)
\* Result::unwrap: an error panics
unwrap(r) == IF r.err # "" THEN Err(r.cpu, "panic") ELSE r

\* val is the bool returned
cross_page_boundary(am, c) ==
    CASE am.mode = "AbsoluteX" ->
            Try(Wrapped(c, am.arg + c.reg.x, 65536),
                LAMBDA c1, e : Ok(c1, page_num(am.arg) # page_num(e)))
      [] am.mode = "AbsoluteY" ->
            Ok(c, page_num(am.arg) # page_num((am.arg + c.reg.y) % 65536))
      [] am.mode = "IndirectY" ->
            Try(unwrap(Cpu_read(c, am.arg)),
                LAMBDA c1, lo :
                   Try(unwrap(Cpu_read(c1, (am.arg + 1) % 256)),
                       LAMBDA c2, hi :
                          Ok(c2, page_num(make_address(lo, hi))
                                   # page_num((make_address(lo, hi) + c.reg.y) % 65536))))
      [] am.mode = "Relative" ->
            Try(unwrap(deref_address(am, c)),
                LAMBDA c1, addr : Ok(c1, page_num(c.reg.pc) # page_num(addr)))
      [] OTHER -> Ok(c, FALSE)

set_negative_flag(c, val) ==
    [c EXCEPT !.reg.status = set(@, NEGATIVE, is_negative(val))]

set_zero_flag(c, val) ==
    [c EXCEPT !.reg.status = set(@, ZERO, val = 0)]

\* "if crossed { Ok(1) } else { Ok(0) }"
extra_if(c, crossed) == Ok(c, IF crossed THEN 1 ELSE 0)

branch_on_predicate_no_page_cost(am, c, take_branch) ==
    Try(cross_page_boundary(am, c),
        LAMBDA c1, cross :
           IF take_branch
           THEN Try(deref_address(am, c1),
                    LAMBDA c2, addr : Ok([c2 EXCEPT !.reg.pc = addr], 1))
           ELSE Ok(c1, 0))

branch_on_predicate(am, c, take_branch) ==
    Try(cross_page_boundary(am, c),
        LAMBDA c1, cross :
           IF take_branch
           THEN Try(deref_address(am, c1),
                    LAMBDA c2, addr :
                       Ok([c2 EXCEPT !.reg.pc = addr], IF cross THEN 2 ELSE 1))
           ELSE Ok(c1, 0))

compare(am, c, val) ==
    Try(cross_page_boundary(am, c),
        LAMBDA c1, cross :
           Try(deref_byte(am, c1),
               LAMBDA c2, m :
                  LET diff == (val - m) % 256 IN
                  extra_if([c2 EXCEPT !.reg.status =
                               set(set(set(@, NEGATIVE, diff >= 128),
                                       ZERO, m = val), CARRY, val >= m)],
                           cross)))

\* the sum of adc and sbc, on the accumulator and the operand m
add_with_carry_unsigned_overflow(c, m, crossed) ==
    LET a == c.reg.a
        sum == a + m + (IF contains(c.reg.status, CARRY) THEN 1 ELSE 0)
        masked == sum % 256
        c1 == set_zero_flag(set_negative_flag([c EXCEPT !.reg.a = masked], masked),
                            masked)
    IN extra_if([c1 EXCEPT !.reg.status =
                    set(set(@, CARRY, sum > 255), OVERFLOW, sum > 255)],
                crossed)

add_with_carry(c, m, crossed) ==
    LET a == c.reg.a
        sum == a + m + (IF contains(c.reg.status, CARRY) THEN 1 ELSE 0)
        masked == sum % 256
        c1 == set_zero_flag(set_negative_flag([c EXCEPT !.reg.a = masked], masked),
                            masked)
    IN extra_if([c1 EXCEPT !.reg.status =
                    set(set(@, CARRY, sum > 255), OVERFLOW,
                        (is_negative(m) = is_negative(a))
                        /\ (is_negative(masked) # is_negative(a)))],
                crossed)

adc(am, c) ==
    Try(deref_byte(am, c),
        LAMBDA c1, m :
           Try(cross_page_boundary(am, c1),
               LAMBDA c2, crossed : add_with_carry(c2, m, crossed)))

sbc(am, c) ==
    Try(deref_byte(am, c),
        LAMBDA c1, m :
           Try(cross_page_boundary(am, c1),
               LAMBDA c2, crossed : add_with_carry(c2, 255 - m, crossed)))

\* and, eor, ora: the accumulator combined with the operand
and(am, c) ==
    Try(deref_byte(am, c),
        LAMBDA c1, m :
           Try(cross_page_boundary(am, c1),
               LAMBDA c2, crossed :
                  LET a == BitAnd(c.reg.a, m) IN
                  extra_if(set_zero_flag(set_negative_flag(
                               [c2 EXCEPT !.reg.a = a], a), a), crossed)))

eor(am, c) ==
    Try(cross_page_boundary(am, c),
        LAMBDA c1, cross :
           Try(deref_byte(am, c1),
               LAMBDA c2, m :
                  LET a == c2.reg.a + m - 2 * BitAnd(c2.reg.a, m) IN
                  extra_if(set_zero_flag(set_negative_flag(
                               [c2 EXCEPT !.reg.a = a], a), a), cross)))

ora(am, c) ==
    Try(cross_page_boundary(am, c),
        LAMBDA c1, cross :
           Try(deref_byte(am, c1),
               LAMBDA c2, m :
                  LET a == BitOr(c2.reg.a, m) IN
                  extra_if(set_zero_flag(set_negative_flag(
                               [c2 EXCEPT !.reg.a = a], a), a), cross)))

bit(am, c) ==
    Try(deref_byte(am, c),
        LAMBDA c1, m :
           Ok(set_zero_flag(
                 [c1 EXCEPT !.reg.status =
                     set(set(@, NEGATIVE, Bit(m, 7) = 1), OVERFLOW, Bit(m, 6) = 1)],
                 BitAnd(c1.reg.a, m)), 0))

\* asl, lsr, rol, ror: val becomes out, with the carry and the flags; on
\* the accumulator or on memory
shift_store(am, c, F(_, _)) ==
    IF am.mode = "Accumulator"
    THEN LET sh == F(c.reg.a, c.reg.status) IN
         Ok([c EXCEPT !.reg.a = sh.out, !.reg.status = sh.status], 0)
    ELSE Try(effective_addr(am, c),
             LAMBDA c1, addr :
                Try(deref_byte(am, c1),
                    LAMBDA c2, val :
                       LET sh == F(val, c2.reg.status) IN
                       IF sh.write_first
                       THEN Try(Cpu_write(c2, addr, sh.out),
                                LAMBDA c3, v : Ok([c3 EXCEPT !.reg.status = sh.status], 0))
                       ELSE Cpu_write([c2 EXCEPT !.reg.status = sh.status],
                                      addr, sh.out)))

asl(am, c) ==
    shift_store(am, c,
        LAMBDA val, st :
           LET out == (val * 2) % 256 IN
           [out |-> out, write_first |-> TRUE,
            status |-> set(set(set(st, CARRY, is_negative(val)), ZERO, out = 0),
                           NEGATIVE, is_negative(out))])

lsr(am, c) ==
    shift_store(am, c,
        LAMBDA val, st :
           LET out == val \div 2 IN
           [out |-> out, write_first |-> TRUE,
            status |-> remove(set(set(st, CARRY, val % 2 = 1), ZERO, out = 0),
                              NEGATIVE)])

rol(am, c) ==
    shift_store(am, c,
        LAMBDA val, st :
           LET out == (val * 2 + (IF contains(st, CARRY) THEN 1 ELSE 0)) % 256 IN
           [out |-> out, write_first |-> FALSE,
            status |-> set(set(set(st, CARRY, is_negative(val)),
                               NEGATIVE, is_negative(out)), ZERO, out = 0)])

ror(am, c) ==
    shift_store(am, c,
        LAMBDA val, st :
           LET out == (val \div 2) + (IF contains(st, CARRY) THEN 128 ELSE 0) IN
           [out |-> out, write_first |-> FALSE,
            status |-> set(set(set(st, CARRY, val % 2 = 1),
                               NEGATIVE, is_negative(out)), ZERO, out = 0)])

\* inc and dec: the byte at the effective address plus delta, wrapping
inc_dec(am, c, delta) ==
    Try(effective_addr(am, c),
        LAMBDA c1, addr :
           Try(Cpu_read(c1, addr),
               LAMBDA c2, m :
                  LET val == (m + delta) % 256 IN
                  Try(Cpu_write(c2, addr, val),
                      LAMBDA c3, v :
                         Ok(set_zero_flag(set_negative_flag(c3, val), val), 0))))

brk(am, c) ==
    Try(Wrapped(c, c.reg.pc + 2, 65536),
        LAMBDA c0, ret :
           Try(push_stack_addr(c0, ret),
               LAMBDA c1, v1 :
                  LET c2 == [c1 EXCEPT !.reg.status = insert(@, INTERRUPT_DISABLE)] IN
                  Try(push_stack(c2, c2.reg.status),
                      LAMBDA c3, v3 :
                         Try(Cpu_read(c3, 65534),
                             LAMBDA c4, lo :
                                Try(Cpu_read(c4, 65535),
                                    LAMBDA c5, hi :
                                       Ok([c5 EXCEPT !.reg.pc = make_address(lo, hi)],
                                          0))))))

cld(am, c) == Ok([c EXCEPT !.reg.status = remove(@, DECIMAL)], 0)

cli(am, c) == Ok([c EXCEPT !.reg.status = remove(@, INTERRUPT_DISABLE)], 0)

sed(am, c) == Ok([c EXCEPT !.reg.status = insert(@, DECIMAL)], 0)

sei(am, c) == Ok([c EXCEPT !.reg.status = insert(@, INTERRUPT_DISABLE)], 0)

jmp(am, c) ==
    Try(deref_address(am, c), LAMBDA c1, addr : Ok([c1 EXCEPT !.reg.pc = addr], 0))

jsr(am, c) ==
    Try(Wrapped(c, c.reg.pc - 1, 65536),
        LAMBDA c0, ret :
           Try(push_stack_addr(c0, ret), LAMBDA c1, v : jmp(am, c1)))

lax(am, c) ==
    Try(cross_page_boundary(am, c),
        LAMBDA c1, crossed :
           Try(deref_byte(am, c1),
               LAMBDA c2, m :
                  extra_if(set_zero_flag(set_negative_flag(
                               [c2 EXCEPT !.reg.x = m, !.reg.a = m], m), m), crossed)))

\* lda, ldx, ldy: register r loaded from the operand
load(am, c, r) ==
    Try(deref_byte(am, c),
        LAMBDA c1, m :
           Try(cross_page_boundary(am, [c1 EXCEPT !.reg[r] = m]),
               LAMBDA c2, crossed :
                  extra_if(set_zero_flag(set_negative_flag(c2, m), m), crossed)))

nop(am, c) ==
    Try(cross_page_boundary(am, c), LAMBDA c1, crossed : extra_if(c1, crossed))

pha(am, c) == push_stack(c, c.reg.a)

php(am, c) == push_stack(c, insert(insert(c.reg.status, BREAK), UNUSED))

pla(am, c) ==
    Try(pop_stack(c),
        LAMBDA c1, a :
           Ok(set_negative_flag(set_zero_flag([c1 EXCEPT !.reg.a = a], a), a), 0))

\* StatusFlags::from_bits: None when a bit outside the declared flags is set
from_bits(c, bits) ==
    IF BitAnd(bits, 255 - BitOr(BitOr(BitOr(CARRY, ZERO), BitOr(INTERRUPT_DISABLE, DECIMAL)),
                                BitOr(BitOr(BREAK, UNUSED), BitOr(OVERFLOW, NEGATIVE)))) # 0
    THEN Err(c, "panic")
    ELSE Ok(c, bits)

\* faulty: the pulled byte becomes P with B removed, U as pulled
plp_keeps_unused(am, c) ==
    Try(pop_stack(c),
        LAMBDA c1, bits :
           Try(from_bits(c1, bits),
               LAMBDA c2, status :
                  Ok([c2 EXCEPT !.reg.status = remove(status, BREAK)], 0)))

plp(am, c) ==
    Try(pop_stack(c),
        LAMBDA c1, bits :
           Try(from_bits(c1, bits),
               LAMBDA c2, status :
                  Ok([c2 EXCEPT !.reg.status = insert(remove(status, BREAK), UNUSED)], 0)))

rti(am, c) ==
    Try(pop_stack(c),
        LAMBDA c1, bits :
           Try(from_bits(c1, bits),
               LAMBDA c2, status :
                  Try(pop_stack_addr([c2 EXCEPT !.reg.status =
                                         insert(remove(status, BREAK), UNUSED)]),
                      LAMBDA c3, addr : Ok([c3 EXCEPT !.reg.pc = addr], 0))))

rts(am, c) ==
    Try(pop_stack_addr(c),
        LAMBDA c1, addr :
           Try(Wrapped(c1, addr + 1, 65536),
               LAMBDA c2, pc : Ok([c2 EXCEPT !.reg.pc = pc], 0)))

\* sta, stx, sty: the byte written to the effective address
store(am, c, byte) ==
    Try(effective_addr(am, c), LAMBDA c1, addr : Cpu_write(c1, addr, byte))

\* tax, tay, tsx, txa, tya, inx, iny, dex, dey: register r set to val,
\* with the negative and zero flags
set_reg(c, r, val) ==
    Ok(set_zero_flag(set_negative_flag([c EXCEPT !.reg[r] = val], val), val), 0)

exec_instr(i, c) ==
    LET st == c.reg.status IN
    CASE i.op = "ADC" -> adc(i, c)
      [] i.op = "AND" -> and(i, c)
      [] i.op = "ASL" -> asl(i, c)
      [] i.op = "BCC" -> branch_on_predicate(i, c, ~contains(st, CARRY))
      [] i.op = "BCS" -> branch_on_predicate(i, c, contains(st, CARRY))
      [] i.op = "BEQ" -> branch_on_predicate(i, c, contains(st, ZERO))
      [] i.op = "BIT" -> bit(i, c)
      [] i.op = "BMI" -> branch_on_predicate(i, c, contains(st, NEGATIVE))
      [] i.op = "BNE" -> branch_on_predicate(i, c, ~contains(st, ZERO))
      [] i.op = "BPL" -> branch_on_predicate(i, c, ~contains(st, NEGATIVE))
      [] i.op = "BRK" -> brk(i, c)
      [] i.op = "BVC" -> branch_on_predicate(i, c, ~contains(st, OVERFLOW))
      [] i.op = "BVS" -> branch_on_predicate(i, c, contains(st, OVERFLOW))
      [] i.op = "CLC" -> Ok([c EXCEPT !.reg.status = remove(@, CARRY)], 0)
      [] i.op = "CLD" -> cld(i, c)
      [] i.op = "CLI" -> cli(i, c)
      [] i.op = "CLV" -> Ok([c EXCEPT !.reg.status = remove(@, OVERFLOW)], 0)
      [] i.op = "CMP" -> compare(i, c, c.reg.a)
      [] i.op = "CPX" -> compare(i, c, c.reg.x)
      [] i.op = "CPY" -> compare(i, c, c.reg.y)
      [] i.op = "DEC" -> inc_dec(i, c, -1)
      [] i.op = "DEX" -> set_reg(c, "x", (c.reg.x - 1) % 256)
      [] i.op = "DEY" -> set_reg(c, "y", (c.reg.y - 1) % 256)
      [] i.op = "EOR" -> eor(i, c)
      [] i.op = "INC" -> inc_dec(i, c, 1)
      [] i.op = "INX" -> set_reg(c, "x", (c.reg.x + 1) % 256)
      [] i.op = "INY" -> set_reg(c, "y", (c.reg.y + 1) % 256)
      [] i.op = "JMP" -> jmp(i, c)
      [] i.op = "JSR" -> jsr(i, c)
      [] i.op = "LAX" -> lax(i, c)
      [] i.op = "LDA" -> load(i, c, "a")
      [] i.op = "LDX" -> load(i, c, "x")
      [] i.op = "LDY" -> load(i, c, "y")
      [] i.op = "LSR" -> lsr(i, c)
      [] i.op = "NOP" -> nop(i, c)
      [] i.op = "ORA" -> ora(i, c)
      [] i.op = "PHA" -> pha(i, c)
      [] i.op = "PHP" -> php(i, c)
      [] i.op = "PLA" -> pla(i, c)
      [] i.op = "PLP" -> plp(i, c)
      [] i.op = "ROL" -> rol(i, c)
      [] i.op = "ROR" -> ror(i, c)
      [] i.op = "RTI" -> rti(i, c)
      [] i.op = "RTS" -> rts(i, c)
      [] i.op = "SBC" -> sbc(i, c)
      [] i.op = "SEC" -> Ok([c EXCEPT !.reg.status = insert(@, CARRY)], 0)
      [] i.op = "SED" -> sed(i, c)
      [] i.op = "SEI" -> sei(i, c)
      [] i.op = "STA" -> store(i, c, c.reg.a)
      [] i.op = "STX" -> store(i, c, c.reg.x)
      [] i.op = "STY" -> store(i, c, c.reg.y)
      [] i.op = "TAX" -> set_reg(c, "x", c.reg.a)
      [] i.op = "TAY" -> set_reg(c, "y", c.reg.a)
      [] i.op = "TSX" -> set_reg(c, "x", c.reg.sp)
      [] i.op = "TXA" -> set_reg(c, "a", c.reg.x)
      [] i.op = "TXS" -> Ok([c EXCEPT !.reg.sp = c.reg.x], 0)
      [] i.op = "TYA" -> set_reg(c, "a", c.reg.y)
      [] OTHER -> Err(c, "InvalidInstruction")

(***************************************************************************)
(* cpu/cpu.rs: construction, reset, the instruction step and the clock.    *)
(* interrupt is "None" or the Interrupt variant pending.                   *)
(***************************************************************************)
Interrupt_vector(interrupt) ==
    CASE interrupt = "NonMaskable" -> 65530
      [] interrupt = "Reset" -> 65532
      [] interrupt = "Request" -> 65534

Interrupt_num_cycles(interrupt) ==
    IF interrupt \in {"NonMaskable", "Reset"} THEN 8 ELSE 7

PpuBuilder_build ==
    [vram |-> EmptyMem, oam |-> EmptyMem, palettes |-> EmptyMem,
     reg |-> [control |-> 0, mask |-> 0, status |-> 0, oam_addr |-> 0,
              ppu_addr_latch |-> FALSE, ppu_data |-> 0, ppu_data_buffer |-> 0,
              t_addr |-> 0, v_addr |-> 0, fine_x |-> 0],
     odd_frame |-> FALSE, cycle |-> 0, scanline |-> 0,
     bg |-> [tile_id |-> 0, tile_attribute |-> 0, tile_lsb |-> 0, tile_msb |-> 0,
             shift_pattern_lsb |-> 0, shift_pattern_msb |-> 0,
             shift_attribute_lsb |-> 0, shift_attribute_msb |-> 0],
     fg |-> [scanline_sprites |-> <<>>, sprite_zero_hit |-> FALSE]]

Cpu_new(cart, controller1, controller2) ==
    [reg |-> [a |-> 0, x |-> 0, y |-> 0, sp |-> 253, pc |-> 52, status |-> UNUSED],
     bus |-> [ram |-> EmptyMem, ppu |-> PpuBuilder_build, cart |-> cart,
              p1 |-> controller1, p2 |-> controller2],
     interrupt |-> "Reset",
     cycles_left |-> 0, ticks_left |-> 0,
     num_cpu_cycles |-> 0, num_system_ticks |-> 0]

\* a faulty reset: the wait of an interrupt entry instead of 7 cycles
reset_eight_cycles(c) ==
    Try(MemoryBus_read(c, Interrupt_vector("Reset")),
        LAMBDA c1, lo :
           Try(MemoryBus_read(c1, Interrupt_vector("Reset") + 1),
               LAMBDA c2, hi :
                  Ok(Ppu_reset([c2 EXCEPT !.reg.pc = make_address(lo, hi),
                                          !.reg.a = 0, !.reg.x = 0, !.reg.y = 0,
                                          !.reg.sp = 253,
                                          !.reg.status = insert(insert(0, UNUSED),
                                                                INTERRUPT_DISABLE),
                                          !.cycles_left = Interrupt_num_cycles("Reset")]),
                     0)))

reset(c) ==
    Try(MemoryBus_read(c, Interrupt_vector("Reset")),
        LAMBDA c1, lo :
           Try(MemoryBus_read(c1, Interrupt_vector("Reset") + 1),
               LAMBDA c2, hi :
                  Ok(Ppu_reset([c2 EXCEPT !.reg.pc = make_address(lo, hi),
                                          !.reg.a = 0, !.reg.x = 0, !.reg.y = 0,
                                          !.reg.sp = 253,
                                          !.reg.status = insert(insert(0, UNUSED),
                                                                INTERRUPT_DISABLE),
                                          !.cycles_left = 7]), 0)))

\* a faulty interrupt check: IRQ is not masked by the I flag
takes_interrupt_unmasked(c) == c.interrupt # "None"

\* whether run_next_instr takes the pending interrupt
takes_interrupt(c) ==
    c.interrupt # "None"
    /\ (c.interrupt # "Request" \/ ~contains(c.reg.status, INTERRUPT_DISABLE))

\* val is the number of cycles the instruction takes
run_next_instr(c) ==
    IF takes_interrupt(c)
    THEN LET vector == Interrupt_vector(c.interrupt) IN
         Try(MemoryBus_read(c, vector),
             LAMBDA c1, lo :
                Try(MemoryBus_read(c1, vector + 1),
                    LAMBDA c2, hi :
                       Try(push_stack_addr(c2, c2.reg.pc),
                           LAMBDA c3, v3 :
                              LET c4 == [c3 EXCEPT !.reg.status =
                                            insert(insert(remove(@, BREAK), UNUSED),
                                                   INTERRUPT_DISABLE)]
                              IN Try(push_stack(c4, c4.reg.status),
                                     LAMBDA c5, v5 :
                                        Ok([c5 EXCEPT !.reg.pc = make_address(lo, hi),
                                                      !.interrupt = "None"],
                                           Interrupt_num_cycles(c.interrupt))))))
    ELSE Try(fetch_instr(c),
             LAMBDA c1, f :
                Try(exec_instr(f.i, c1),
                    LAMBDA c2, extra_cycles : Ok(c2, f.ncycles + extra_cycles)))

\* a faulty cycle: an instruction step on every CPU cycle
cycle_no_wait(c) ==
    Try(run_next_instr(c),
        LAMBDA c1, n :
           Try(Wrapped(c1, n - 1, 65536),
               LAMBDA c3, left :
                  Ok([c3 EXCEPT !.cycles_left = left,
                                !.num_cpu_cycles = @ + 1], 0)))

cycle(c) ==
    Try(IF c.cycles_left = 0
        THEN Try(run_next_instr(c),
                 LAMBDA c1, n : Ok([c1 EXCEPT !.cycles_left = n], 0))
        ELSE Ok(c, 0),
        LAMBDA c2, v :
           Try(Wrapped(c2, c2.cycles_left - 1, 65536),
               LAMBDA c3, left :
                  Ok([c3 EXCEPT !.cycles_left = left,
                                !.num_cpu_cycles = @ + 1], 0)))

\* a faulty tick: the PPU dot before the CPU cycle
system_tick_ppu_first(c) ==
    Try(Ppu_tick([c EXCEPT !.num_system_ticks = @ + 1]),
        LAMBDA c1, t :
           Try(IF c1.ticks_left = 0
               THEN Try(cycle(c1),
                        LAMBDA c2, v :
                           Ok([c2 EXCEPT !.ticks_left = NUM_TICKS_PER_CPU_CYCLE], 0))
               ELSE Ok(c1, 0),
               LAMBDA c3, v :
                  Ok([c3 EXCEPT !.ticks_left = @ - 1, !.interrupt = t.int], t.frame)))

\* val is TRUE when the tick returns a frame
system_tick(c) ==
    LET c0 == [c EXCEPT !.num_system_ticks = @ + 1] IN
    Try(IF c0.ticks_left = 0
        THEN Try(cycle(c0),
                 LAMBDA c1, v : Ok([c1 EXCEPT !.ticks_left = NUM_TICKS_PER_CPU_CYCLE], 0))
        ELSE Ok(c0, 0),
        LAMBDA c2, v :
           Try(Ppu_tick([c2 EXCEPT !.ticks_left = @ - 1]),
               LAMBDA c3, t : Ok([c3 EXCEPT !.interrupt = t.int], t.frame)))

(***************************************************************************)
(* The cartridges the machine is run on (cart/mapper0.rs, build_nrom_cart):*)
(* one 16 KiB PRG bank mapped at $8000 and $C000, one 8 KiB CHR bank.      *)
(* The vectors are NMI $8040, Reset $8004, IRQ $8050; both handlers are a  *)
(* single RTI.                                                             *)
(***************************************************************************)
\* the PRG bank holding code at $8004 and the bytes of extra elsewhere
PrgRom(code, extra) ==
    LET fixed == [a \in {64, 80, 16378, 16379, 16380, 16381, 16382, 16383} |->
                    CASE a \in {64, 80} -> 64
                      [] a = 16378 -> 64
                      [] a = 16380 -> 4
                      [] a = 16382 -> 80
                      [] OTHER -> 128]
        at(a) == IF a \in 4..(3 + Len(code)) THEN code[a - 3]
                 ELSE IF a \in DOMAIN extra THEN extra[a]
                 ELSE fixed[a]
    IN [a \in {b \in (4..(3 + Len(code))) \cup DOMAIN extra \cup DOMAIN fixed :
                  at(b) # 0} |-> at(a)]

\* the cartridge of a program: 16 KiB of PRG, horizontal mirroring; tile 0
\* of the 8 KiB CHR bank is opaque (all $FF)
ProgramCart(code, extra) ==
    build_nrom_cart(PrgRom(code, extra), 16384,
                    [a \in 0..15 |-> 255], 8192, "Horizontal").cart

\* LDX #5; STX $2003; LDA #$80; STA $4014; NOP; JMP $800E
ProgDma == <<162, 5, 142, 3, 32, 169, 128, 141, 20, 64, 234, 76, 14, 128>>
\* CLI; LDX #$20; LDA $80F0,X; BNE +1; NOP; PHA; PLA; JMP $8004
ProgTiming == <<88, 162, 32, 189, 240, 128, 208, 1, 234, 72, 104, 76, 4, 128>>
\* NOP; an opcode the matrix marks invalid
ProgInvalid == <<234, 2>>
\* LDX #1; TXS; CLI; NOP; JMP $8008
ProgStack == <<162, 1, 154, 88, 234, 76, 8, 128>>
\* LDA #$80; STA $2000; JMP $8009
ProgNmi == <<169, 128, 141, 0, 32, 76, 9, 128>>
\* LDA #$EB; STA $2004; LDA #$1E; STA $2001; JMP $800E
ProgRender == <<169, 235, 141, 4, 32, 169, 30, 141, 1, 32, 76, 14, 128>>

NoController == [present |-> FALSE, inputs |-> 0, read_state |-> 0, strobe |-> TRUE]

Programs == {ProgDma, ProgTiming, ProgInvalid, ProgStack}
FramePrograms == {ProgNmi, ProgRender}
\* LDA $2007; LDA #$21; STA $2006; LDA $2002; BPL -5; LDA $200A; STA $2006;
\* STA $2006; JMP $801A
ProgStatus ==
    <<173, 7, 32, 169, 33, 141, 6, 32, 173, 2, 32, 16, 251, 173, 10, 32,
      141, 6, 32, 141, 6, 32, 76, 26, 128>>

(***************************************************************************)
(* The state machine.  result is the outcome of the last call; hist keeps  *)
(* what an observer of the calls has seen: whether reset() was called, the *)
(* host's writes of Cpu::interrupt, the last instruction step (the CPU     *)
(* cycle count at it, the cycles it returned, what it took or executed,    *)
(* whether it stored to $4014), the first such step, and the frames.       *)
(***************************************************************************)
NoHist ==
    [reset_called |-> FALSE, host_ints |-> 0,
     commit |-> [at |-> -1, cost |-> 0, kind |-> "None", dma |-> FALSE],
     first_commit_at |-> -1,
     last_frame_tick |-> 0, frame_gap |-> 0,
     access |-> [op |-> "none", reg |-> 0, at |-> 0]]

\* the next system_tick runs run_next_instr
at_boundary(c) == c.ticks_left = 0 /\ c.cycles_left = 0

\* r is Ok(v)
is_ok(r, v) == r.err = "" /\ r.val = v

\* the fetched instruction f is a store whose address is 0x4014
stores_to_4014(f) ==
    /\ f.err = ""
    /\ f.val.i.op \in {"STA", "STX", "STY"}
    /\ is_ok(effective_addr(f.val.i, f.cpu), 16404)

\* the instruction at PC stores to $4014
writes_4014(c) == ~takes_interrupt(c) /\ stores_to_4014(fetch_instr(c))

\* the last access of a PPU register by an instruction with an absolute
\* address: f is the decoded instruction that runs at system tick at, h the
\* access before it
PpuAccess(f, h, at) ==
    IF f.err = "" /\ f.val.mode = "Absolute" /\ f.val.arg \in 8192..16383
    THEN [op |-> f.val.op, reg |-> f.val.arg % 8, at |-> at]
    ELSE h

Init ==
    /\ overflow_checks \in BOOLEAN
    /\ \E code \in Programs :
          cpu = Cpu_new(ProgramCart(code, (272 :> 1)), NoController, NoController)
    /\ result = [call |-> "new", err |-> "", frame |-> FALSE]
    /\ hist = NoHist

\* main.rs and the nestest test: reset() right after construction
Reset ==
    /\ result.call = "new"
    /\ ~hist.reset_called
    /\ LET r == reset(cpu) IN
       /\ cpu' = r.cpu
       /\ result' = [call |-> "reset", err |-> r.err, frame |-> FALSE]
    /\ hist' = [hist EXCEPT !.reset_called = TRUE]
    /\ UNCHANGED overflow_checks

\* the step of one call of system_tick that returned r, step being what
\* run_next_instr returns from this state
Ticked(r, step) ==
    LET n == r.cpu.num_system_ticks
        frame == r.err = "" /\ r.val
        commit == [at |-> cpu.num_cpu_cycles, cost |-> step.val,
                   kind |-> IF step.err # "" THEN "Error"
                            ELSE IF takes_interrupt(cpu) THEN cpu.interrupt
                            ELSE "Instr",
                   dma |-> writes_4014(cpu)]
    IN /\ cpu' = r.cpu
       /\ result' = [call |-> "system_tick", err |-> r.err, frame |-> frame]
       /\ hist' = [hist EXCEPT
                     !.commit = IF at_boundary(cpu) THEN commit ELSE @,
                     !.access = IF at_boundary(cpu) /\ ~takes_interrupt(cpu)
                                THEN PpuAccess(decode_instr(cpu), @, cpu.num_system_ticks)
                                ELSE @,
                     !.first_commit_at =
                         IF at_boundary(cpu) /\ @ < 0 THEN cpu.num_cpu_cycles ELSE @,
                     !.last_frame_tick = IF frame THEN n ELSE @,
                     !.frame_gap = IF frame /\ hist.last_frame_tick > 0
                                   THEN n - hist.last_frame_tick ELSE @]

\* one call of system_tick, while fewer than max calls were made
Tick(max) ==
    /\ result.err = ""
    /\ cpu.num_system_ticks < max
    /\ Ticked(system_tick(cpu), run_next_instr(cpu))
    /\ UNCHANGED overflow_checks

SystemTick == Tick(MaxTicks)

\* the host writes the pub field Cpu::interrupt between two ticks
HostSetInterrupt ==
    /\ result.err = ""
    /\ result.call = "system_tick"
    /\ hist.host_ints < MaxHostInterrupts
    /\ cpu.num_system_ticks < MaxTicks
    /\ \E i \in {"Request", "NonMaskable"} :
          /\ cpu.interrupt # i
          /\ cpu' = [cpu EXCEPT !.interrupt = i]
    /\ result' = [result EXCEPT !.call = "set_interrupt"]
    /\ hist' = [hist EXCEPT !.host_ints = @ + 1]
    /\ UNCHANGED overflow_checks

Next == Reset \/ SystemTick \/ HostSetInterrupt

Spec == Init /\ [][Next]_vars

\* main.rs: Cpu::new, reset(), then next_frame() over and over; each step
\* is one iteration of the loop of next_frame.  The emulator runs as a
\* release build (no overflow checks).
InitFrame ==
    /\ overflow_checks = FALSE
    /\ \E code \in FramePrograms :
          cpu = reset(Cpu_new(ProgramCart(code, EmptyMem),
                              NoController, NoController)).cpu
    /\ result = [call |-> "reset", err |-> "", frame |-> FALSE]
    /\ hist = [NoHist EXCEPT !.reset_called = TRUE]

next_frame == Tick(MaxFrameTicks)

NextFrame == next_frame

SpecFrame == InitFrame /\ [][NextFrame]_vars

(***************************************************************************)
(* The status machine: a program that reads PPUDATA once, writes PPUADDR   *)
(* once, polls PPUSTATUS until bit 7 is set, reads it again through a      *)
(* mirror and then writes PPUADDR twice, run tick by tick after reset().   *)
(***************************************************************************)
InitStatus ==
    /\ overflow_checks = FALSE
    /\ cpu = reset(Cpu_new(ProgramCart(ProgStatus, EmptyMem),
                           NoController, NoController)).cpu
    /\ result = [call |-> "reset", err |-> "", frame |-> FALSE]
    /\ hist = [NoHist EXCEPT !.reset_called = TRUE]

StatusTick == Tick(MaxStatusTicks)

NextStatus == StatusTick

SpecStatus == InitStatus /\ [][NextStatus]_vars

(***************************************************************************)
(* The idle machine: a program that leaves rendering off, sets v to $2121  *)
(* with a pair of stores to $2006, t to $0521 with a third one, loads from *)
(* $2007 and loops, run over a frame and past the pre-render scanline.     *)
(***************************************************************************)
\* LDA #$21; STA $2006; STA $2006; LDA #$05; STA $2006; LDA $2007; JMP $8014
ProgIdle ==
    <<169, 33, 141, 6, 32, 141, 6, 32, 169, 5, 141, 6, 32, 173, 7, 32, 76, 20, 128>>

InitIdle ==
    /\ overflow_checks = FALSE
    /\ cpu = reset(Cpu_new(ProgramCart(ProgIdle, EmptyMem),
                           NoController, NoController)).cpu
    /\ result = [call |-> "reset", err |-> "", frame |-> FALSE]
    /\ hist = [NoHist EXCEPT !.reset_called = TRUE]

IdleTick == Tick(MaxIdleTicks)

SpecIdle == InitIdle /\ [][IdleTick]_vars

(***************************************************************************)
(* The bus seen from the instructions: single calls of Cpu::read and       *)
(* Cpu::write, as the loads and stores of a program make them.  Here hist  *)
(* is what an observer of the calls keeps: their number, the last call     *)
(* and the PPU register access before it, the writes to the MMC1 port      *)
(* since the last latch or reset (their bytes, and whether all went to     *)
(* $8000-$9FFF), the five writes of the sequence the last port write       *)
(* completed, how many writes the last reset of the port discarded, and    *)
(* for controller 1 the strobe bit last written (low before any write),    *)
(* the buttons held at its falling edge (-1 once $4016 is written again)    *)
(* and the reads since.                                                    *)
(***************************************************************************)
\* a call: w is the PPU write latch when it was made
NoOp == [op |-> "none", addr |-> 0, byte |-> 0, val |-> 0, err |-> "", w |-> FALSE]

NoSerial == [bytes |-> <<>>, low |-> TRUE]

BusHist ==
    [n |-> 0, last |-> NoOp, prev |-> NoOp, serial |-> NoSerial, done |-> NoSerial,
     cut |-> 0, strobe |-> FALSE, latched |-> -1, reads |-> 0]

\* hist after the call o (its val and err filled in) made in state c
Observe(h, o, c) ==
    LET port == o.op = "write" /\ o.addr >= 32768 /\ o.err = ""
        more == [bytes |-> Append(h.serial.bytes, o.byte),
                 low |-> h.serial.low /\ o.addr < 40960]
        fifth == o.byte < 128 /\ Len(h.serial.bytes) = 4
        pad == o.addr = 16406 /\ o.err = ""
        falling == pad /\ o.op = "write" /\ h.strobe /\ o.byte % 2 = 0
    IN [n |-> h.n + 1,
        last |-> [o EXCEPT !.w = c.bus.ppu.reg.ppu_addr_latch],
        prev |-> IF h.last.addr \in 8192..16383 THEN h.last ELSE h.prev,
        serial |-> IF ~port THEN h.serial
                   ELSE IF o.byte >= 128 \/ fifth THEN NoSerial ELSE more,
        done |-> IF ~port THEN h.done ELSE IF fifth THEN more ELSE NoSerial,
        cut |-> IF port /\ o.byte >= 128 THEN Len(h.serial.bytes) ELSE h.cut,
        strobe |-> IF pad /\ o.op = "write" THEN o.byte % 2 = 1 ELSE h.strobe,
        latched |-> IF falling THEN c.bus.p1.inputs
                    ELSE IF pad /\ o.op = "write" THEN -1
                    ELSE h.latched,
        reads |-> IF falling THEN 0
                  ELSE IF pad /\ o.op = "read" /\ ~h.strobe THEN h.reads + 1
                  ELSE h.reads]

\* the step of the call o that returned r
BusOp(o, r) ==
    /\ cpu' = r.cpu
    /\ result' = [call |-> o.op, err |-> r.err, frame |-> FALSE]
    /\ hist' = Observe(hist, [o EXCEPT !.val = r.val, !.err = r.err], cpu)
    /\ UNCHANGED overflow_checks

\* one store: Cpu::write(addr, byte)
BusWrite(addrs, bytes, max) ==
    /\ result.err = ""
    /\ hist.n < max
    /\ \E addr \in addrs, byte \in bytes :
          BusOp([NoOp EXCEPT !.op = "write", !.addr = addr, !.byte = byte],
                Cpu_write(cpu, addr, byte))

\* one load: Cpu::read(addr)
BusRead(addrs, max) ==
    /\ result.err = ""
    /\ hist.n < max
    /\ \E addr \in addrs :
          BusOp([NoOp EXCEPT !.op = "read", !.addr = addr], Cpu_read(cpu, addr))

(***************************************************************************)
(* The MMC1 machine: Cpu::new on a cartridge of mapper 1, reset(), then    *)
(* stores to the serial port.  Each 16 KiB PRG bank b holds b + 1 in its   *)
(* first byte and $80 in the high bytes of its reset and IRQ vectors.      *)
(***************************************************************************)
Mmc1Prg(banks) ==
    [a \in UNION {{b * 16384, b * 16384 + 16381, b * 16384 + 16383} : b \in 0..(banks - 1)} |->
        IF a % 16384 = 0 THEN (a \div 16384) + 1 ELSE 128]

\* 128 KiB of PRG ROM and 32 KiB of CHR ROM
Mmc1Cart == build_mmc1_cart(Mmc1Prg(8), 131072, (4096 :> 255), 32768).cart

\* $9FFF, $A000, $C000, $FFFF: one address for each register
Mmc1Addrs == {40959, 40960, 49152, 65535}
\* bit 0 clear and set, bits 1-6 set, bit 7 set
Mmc1Bytes == {0, 1, 126, 128}

\* the release build
InitMmc1 ==
    /\ overflow_checks = FALSE
    /\ cpu = reset(Cpu_new(Mmc1Cart, NoController, NoController)).cpu
    /\ result = [call |-> "reset", err |-> "", frame |-> FALSE]
    /\ hist = BusHist

Mmc1PortWrite == BusWrite(Mmc1Addrs, Mmc1Bytes, MaxMmc1Writes)

NextMmc1 == Mmc1PortWrite

SpecMmc1 == InitMmc1 /\ [][NextMmc1]_vars

(***************************************************************************)
(* The palette machine: a program that stores one byte to palette RAM at   *)
(* $3F00 through PPUDATA, turns the background on and loops.               *)
(***************************************************************************)
\* LDA #$3F; STA $2006; LDA #$00; STA $2006; LDA #byte; STA $2007;
\* LDA #$0A; STA $2001; JMP $8018
ProgPalette(byte) ==
    <<169, 63, 141, 6, 32, 169, 0, 141, 6, 32, 169, byte, 141, 7, 32,
      169, 10, 141, 1, 32, 76, 24, 128>>

PaletteBytes == {0, 13, 63, 64, 128, 255}

InitPalette ==
    /\ overflow_checks = FALSE
    /\ \E byte \in PaletteBytes :
          cpu = reset(Cpu_new(ProgramCart(ProgPalette(byte), EmptyMem),
                              NoController, NoController)).cpu
    /\ result = [call |-> "reset", err |-> "", frame |-> FALSE]
    /\ hist = [NoHist EXCEPT !.reset_called = TRUE]

PaletteTick == Tick(MaxPaletteTicks)

SpecPalette == InitPalette /\ [][PaletteTick]_vars

(***************************************************************************)
(* The bank machine: Cpu::new on a cartridge of mapper 1 of one of nine    *)
(* sizes, reset(), then stores to the serial port, loads from PRG and      *)
(* Ppu::ppu_read / Ppu::ppu_write in the pattern tables.                   *)
(***************************************************************************)
\* 16 KiB, 32 KiB and 256 KiB of PRG ROM
BankPrgSizes == {1, 2, 16}
\* CHR RAM, 8 KiB and 128 KiB of CHR ROM
BankChrSizes == {0, 8192, 131072}

BankCarts ==
    {build_mmc1_cart(Mmc1Prg(b), b * 16384, (4096 :> 255), len).cart :
        b \in BankPrgSizes, len \in BankChrSizes}

\* $8000, $BFFF, $C000, $FFFF: the ends of the two PRG windows
BankPrgAddrs == {32768, 49151, 49152, 65535}
\* $0000, $0FFF, $1000, $1FFF: the ends of the two pattern tables
BankChrAddrs == {0, 4095, 4096, 8191}

InitBank ==
    /\ overflow_checks = FALSE
    /\ \E cart \in BankCarts :
          cpu = reset(Cpu_new(cart, NoController, NoController)).cpu
    /\ result = [call |-> "reset", err |-> "", frame |-> FALSE]
    /\ hist = [n |-> 0, addr |-> 0]

\* the step of a call at addr that returned r
BankOp(call, addr, r) ==
    /\ cpu' = r.cpu
    /\ result' = [call |-> call, err |-> r.err, frame |-> FALSE]
    /\ hist' = [n |-> hist.n + 1, addr |-> addr]
    /\ UNCHANGED overflow_checks

BankPortWrite ==
    /\ result.err = ""
    /\ hist.n < MaxBankCalls
    /\ \E addr \in Mmc1Addrs, byte \in {0, 1, 128} :
          BankOp("write", addr, Cpu_write(cpu, addr, byte))

BankPrgRead ==
    /\ result.err = ""
    /\ hist.n < MaxBankCalls
    /\ \E addr \in BankPrgAddrs : BankOp("read", addr, Cpu_read(cpu, addr))

BankChrRead ==
    /\ result.err = ""
    /\ hist.n < MaxBankCalls
    /\ \E addr \in BankChrAddrs : BankOp("ppu_read", addr, ppu_read(cpu, addr))

BankChrWrite ==
    /\ result.err = ""
    /\ hist.n < MaxBankCalls
    /\ \E addr \in BankChrAddrs :
          BankOp("ppu_write", addr, ppu_write(cpu, addr, 255))

NextBank == BankPortWrite \/ BankPrgRead \/ BankChrRead \/ BankChrWrite

SpecBank == InitBank /\ [][NextBank]_vars

(***************************************************************************)
(* The controller machine (main.rs): Cpu::new with controller 1, reset();  *)
(* the host presses and releases keys, the program stores to and loads     *)
(* from $4016.                                                             *)
(***************************************************************************)
\* Inputs::A, Inputs::B, Inputs::RIGHT: of the eight buttons that main.rs
\* maps, the ones of the first, the second and the last bit read
PadButtons == {1, 2, 128}

InitPad ==
    /\ overflow_checks = FALSE
    /\ cpu = reset(Cpu_new(ProgramCart(ProgStack, EmptyMem),
                           make_controller, NoController)).cpu
    /\ result = [call |-> "reset", err |-> "", frame |-> FALSE]
    /\ hist = BusHist

\* a key goes down: controller.input(b)
HostInput ==
    /\ result.err = ""
    /\ hist.n < MaxPadCalls
    /\ \E b \in PadButtons :
          /\ ~contains(cpu.bus.p1.inputs, b)
          /\ BusOp([NoOp EXCEPT !.op = "input", !.byte = b],
                   Ok(Controller_input(cpu, "p1", b), 0))

\* a key goes up: controller.remove_input(b)
HostRelease ==
    /\ result.err = ""
    /\ hist.n < MaxPadCalls
    /\ \E b \in PadButtons :
          /\ contains(cpu.bus.p1.inputs, b)
          /\ BusOp([NoOp EXCEPT !.op = "remove_input", !.byte = b],
                   Ok(Controller_remove_input(cpu, "p1", b), 0))

\* the Space key goes down: controller.clear()
HostClear ==
    /\ result.err = ""
    /\ hist.n < MaxPadCalls
    /\ BusOp([NoOp EXCEPT !.op = "clear"], Ok(Controller_clear(cpu, "p1"), 0))

PadWrite == BusWrite({16406}, {0, 1}, MaxPadCalls)

PadRead == BusRead({16406}, MaxPadCalls)

NextPad == HostInput \/ HostRelease \/ HostClear \/ PadWrite \/ PadRead

SpecPad == InitPad /\ [][NextPad]_vars

(***************************************************************************)
(* The VRAM port machine: Cpu::new on an NROM cartridge, reset(), then     *)
(* stores to PPUCTRL ($2000), PPUADDR ($2006) and PPUDATA ($2007) and      *)
(* loads from PPUSTATUS ($2002) and PPUDATA.                               *)
(***************************************************************************)
\* PPUADDR bytes: as the high byte $00, $10, $30, $3F and $FF (masked to
\* $3F), as the low byte $00, $10, $30, $3F, $FF
VramAddrBytes == {0, 16, 48, 63, 255}

InitVram ==
    /\ overflow_checks = FALSE
    /\ cpu = reset(Cpu_new(ProgramCart(ProgStack, EmptyMem),
                           NoController, NoController)).cpu
    /\ result = [call |-> "reset", err |-> "", frame |-> FALSE]
    /\ hist = BusHist

\* STA $2000 with the VRAM increment bit set or clear
WriteCtrl == BusWrite({8192}, {0, 4}, MaxVramCalls)

\* STA $2006
WriteAddr == BusWrite({8198}, VramAddrBytes, MaxVramCalls)

\* STA $2007
WriteData == BusWrite({8199}, {33}, MaxVramCalls)

\* LDA $2002, LDA $2007
ReadVram == BusRead({8194, 8199}, MaxVramCalls)

NextVram == WriteCtrl \/ WriteAddr \/ WriteData \/ ReadVram

SpecVram == InitVram /\ [][NextVram]_vars

(***************************************************************************)
(* The OAM port machine: Cpu::new on an NROM cartridge, reset(), then      *)
(* stores to OAMADDR ($2003), OAMDATA ($2004), OAMDMA ($4014, from page 0) *)
(* and to the RAM byte $0002 that the DMA copies to the attribute byte of  *)
(* sprite 0, and loads from OAMDATA.                                       *)
(***************************************************************************)
InitOam ==
    /\ overflow_checks = FALSE
    /\ cpu = reset(Cpu_new(ProgramCart(ProgStack, EmptyMem),
                           NoController, NoController)).cpu
    /\ result = [call |-> "reset", err |-> "", frame |-> FALSE]
    /\ hist = BusHist

\* STA $02
WriteRam == BusWrite({2}, {255}, MaxOamCalls)

\* STA $2003
WriteOamAddr == BusWrite({8195}, {2, 255}, MaxOamCalls)

\* STA $2004
WriteOamData == BusWrite({8196}, {33, 255}, MaxOamCalls)

\* LDA $2004
ReadOamData == BusRead({8196}, MaxOamCalls)

\* STA $4014 with page 0
WriteOamDma == BusWrite({16404}, {0}, MaxOamCalls)

NextOam == WriteRam \/ WriteOamAddr \/ WriteOamData \/ ReadOamData \/ WriteOamDma

SpecOam == InitOam /\ [][NextOam]_vars

(***************************************************************************)
(* The instruction machine, in the manner of the unit tests and of the     *)
(* nestest test: Cpu::new on an NROM cartridge, the pub fields interrupt   *)
(* and reg set by the test, code and one stack byte put into RAM with      *)
(* Cpu::write, then the instructions at PC fetched and executed one after  *)
(* the other.  hist is the number of instructions run and what the last    *)
(* one returned as its cycle count.                                        *)
(***************************************************************************)
\* RAM holding byte top at address pull, then the bytes of code written
\* from address at on, everything else 0
RamWith(at, code, pull, top) ==
    LET byte(a) == IF a \in at..(at + Len(code) - 1) THEN code[a - at + 1]
                   ELSE IF a = pull THEN top
                   ELSE 0
    IN [a \in {b \in (at..(at + Len(code) - 1)) \cup {pull} : byte(b) # 0} |-> byte(a)]

\* the CPU a test prepares: k gives the pending interrupt, PC, the code at
\* PC, A, X, SP, P and the byte that the next pull reads
Prepared(k) ==
    [Cpu_new(ProgramCart(ProgStack, EmptyMem), NoController, NoController)
       EXCEPT !.interrupt = k.interrupt,
              !.reg.pc = k.pc, !.reg.a = k.a, !.reg.x = k.x, !.reg.sp = k.sp,
              !.reg.status = k.status,
              !.bus.ram = RamWith(k.pc, k.code, STACK_OFFSET + ((k.sp + 1) % 256), k.top)]

\* status bytes with U set: I alone, nothing else, N V Z C, every flag
StatusSamples == {36, 32, 227, 239}
\* stack pointers: the reset value, both ends, and one off either end
StackSamples == {253, 0, 1, 254, 255}

\* BRK; PLP; RTI with bytes on the stack that have U clear, B set, bit 4 set
\* the same with an NMI or an IRQ pending
BreakCases ==
    [interrupt : {"None", "NonMaskable", "Request"},
     pc : {512}, code : {<<0>>, <<40>>, <<64>>}, a : {0}, x : {0},
     sp : StackSamples, status : StatusSamples, top : {0, 8, 16, 207, 255}]
\* each of the 256 opcodes with the operand bytes $10, $02
OpcodeCases ==
    [interrupt : {"None"},
     pc : {512}, code : {<<op, 16, 2>> : op \in 0..255}, a : {129}, x : {3},
     sp : {253}, status : StatusSamples, top : {0}]
\* PHA; PLA and PLA; PHA with every A
StackCases ==
    [interrupt : {"None"}, pc : {512}, code : {<<72, 104>>, <<104, 72>>}, a : 0..255, x : {0},
     sp : StackSamples, status : {36}, top : {0, 128}]
\* LDA addr,X
IndexedCases ==
    [interrupt : {"None"}, pc : {512}, code : {<<189, lo, hi>> : lo \in {0, 240, 255}, hi \in {0, 1, 7, 255}},
     a : {0}, x : {0, 1, 15, 16, 255}, sp : {253}, status : {36}, top : {0}]
\* the eight branches with offsets 0, 1, 5, 127, -128, -5, -1
BranchCases ==
    [interrupt : {"None"}, pc : {509, 512, 638},
     code : {<<op, off>> : op \in {16, 48, 80, 112, 144, 176, 208, 240},
                           off \in {0, 1, 5, 127, 128, 251, 255}},
     a : {0}, x : {0}, sp : {253}, status : {36, 227}, top : {0}]

InstrCases ==
    BreakCases \cup OpcodeCases \cup StackCases \cup IndexedCases \cup BranchCases

\* a, sp, pc, status and interrupt are what the run started from
InstrHist(c) ==
    [n |-> 0, cost |-> 0, a |-> c.reg.a, sp |-> c.reg.sp, pc |-> c.reg.pc,
     status |-> c.reg.status, interrupt |-> c.interrupt]

InitInstr ==
    /\ overflow_checks \in BOOLEAN
    /\ \E k \in InstrCases : cpu = Prepared(k)
    /\ result = [call |-> "new", err |-> "", frame |-> FALSE]
    /\ hist = InstrHist(cpu)

\* the step that run_next_instr makes when it returned r
Stepped(r) ==
    /\ cpu' = r.cpu
    /\ result' = [call |-> "run_next_instr", err |-> r.err, frame |-> FALSE]
    /\ hist' = [hist EXCEPT !.n = @ + 1, !.cost = r.val]

\* fetch_instr and exec_instr on the instruction at PC
ExecNext ==
    /\ result.err = ""
    /\ hist.n < MaxInstrSteps
    /\ Stepped(run_next_instr(cpu))
    /\ UNCHANGED overflow_checks

\* Cpu::reset called between two instructions
ResetBetween ==
    /\ result.err = ""
    /\ result.call = "run_next_instr"
    /\ hist.n < MaxInstrSteps
    /\ Try(reset(cpu),
           LAMBDA c1, v : /\ cpu' = c1
                          /\ result' = [call |-> "reset", err |-> "", frame |-> FALSE])
    /\ hist' = [hist EXCEPT !.n = @ + 1, !.cost = 0]
    /\ UNCHANGED overflow_checks

NextInstr == ExecNext \/ ResetBetween

SpecInstr == InitInstr /\ [][NextInstr]_vars

\* The ADC machine: ADC #m (opcode $69) twice in a row at $0200, from every
\* accumulator, every operand and both values of the carry.
AdcCases ==
    [interrupt : {"None"}, pc : {512},
     code : {<<105, m, 105, m>> : m \in 0..255},
     a : 0..255, x : {0}, sp : {253}, status : {36, 37}, top : {0}]

InitAdc ==
    /\ overflow_checks \in BOOLEAN
    /\ \E k \in AdcCases : cpu = Prepared(k)
    /\ result = [call |-> "new", err |-> "", frame |-> FALSE]
    /\ hist = InstrHist(cpu)

ExecAdc ==
    /\ result.err = ""
    /\ hist.n < MaxAdcSteps
    /\ Stepped(run_next_instr(cpu))
    /\ UNCHANGED overflow_checks

SpecAdc == InitAdc /\ [][ExecAdc]_vars

(***************************************************************************)
(* The nametable machine: the PPU side of a cartridge, Cartridge::ppu_write *)
(* and Cartridge::ppu_read on the window $2000-$2FFF.  The cartridge is an  *)
(* NROM one with either header mirroring, or an MMC1 one whose control      *)
(* register selects one of its four.  hist.addr is the address the run      *)
(* writes to, hist.read the last read and what it returned.                 *)
(***************************************************************************)
MirrorCarts ==
    {build_nrom_cart(PrgRom(ProgStack, EmptyMem), 16384, EmptyMem, 8192, m).cart :
        m \in {"Horizontal", "Vertical"}}
    \cup {update_base_addr([Mmc1Cart EXCEPT !.control = 12 + k]) : k \in 0..3}

\* the mirroring in force: of the header (NROM), of the control register (MMC1)
MirrorOf(c) ==
    IF c.bus.cart.name = "MMC1" THEN c.bus.cart.mirror_type ELSE c.bus.cart.mirroring

InitMirror ==
    /\ overflow_checks = FALSE
    /\ \E cart \in MirrorCarts :
          cpu = reset(Cpu_new(cart, NoController, NoController)).cpu
    /\ result = [call |-> "reset", err |-> "", frame |-> FALSE]
    /\ \E addr \in 8192..12287 :
          hist = [n |-> 0, addr |-> addr, read |-> [addr |-> 0, val |-> 0]]

\* the byte $FF goes to the address of the run
WriteNametable ==
    /\ result.err = ""
    /\ hist.n < MaxMirrorCalls
    /\ LET r == Cart_ppu_write(cpu, hist.addr, 255)
       IN /\ cpu' = r.cpu
          /\ result' = [call |-> "ppu_write", err |-> r.err, frame |-> FALSE]
    /\ hist' = [hist EXCEPT !.n = @ + 1]
    /\ UNCHANGED overflow_checks

\* a read at the same offset of one of the four nametables
ReadNametable ==
    /\ result.err = ""
    /\ hist.n < MaxMirrorCalls
    /\ \E nt \in 0..3 :
          LET addr == NAMETABLE_OFFSET + nt * 1024 + (hist.addr % 1024)
              r == Cart_ppu_read(cpu, addr)
          IN /\ cpu' = r.cpu
             /\ result' = [call |-> "ppu_read", err |-> r.err, frame |-> FALSE]
             /\ hist' = [hist EXCEPT !.n = @ + 1,
                                     !.read = [addr |-> addr, val |-> r.val]]
    /\ UNCHANGED overflow_checks

NextMirror == WriteNametable \/ ReadNametable

SpecMirror == InitMirror /\ [][NextMirror]_vars

(***************************************************************************)
(* The NROM machine: build_nrom_cart on a PRG array of one of six lengths,  *)
(* then Cpu::new and reads of the PRG window through the bus.  A PRG array  *)
(* of an accepted length holds one byte $FF, at every index in turn.        *)
(* hist.len and hist.prg are the array handed to the build, hist.read the   *)
(* last read and what it returned.                                          *)
(***************************************************************************)
PrgSizes == {0, 8192, 16384, 32768, 49152, 65536}

\* what stands for the machine when no cartridge was built
NoCpu == [bus |-> [cart |-> NoCart]]

InitNrom ==
    /\ overflow_checks = FALSE
    /\ \E len \in PrgSizes :
          \E p \in (IF len \in {16384, 32768} THEN 0..(len - 1) ELSE {0}) :
             LET prg == IF len = 0 THEN EmptyMem ELSE (p :> 255)
                 b == build_nrom_cart(prg, len, EmptyMem, 8192, "Horizontal")
             IN /\ cpu = IF b.err = ""
                         THEN Cpu_new(b.cart, NoController, NoController)
                         ELSE NoCpu
                /\ result = [call |-> "build_nrom_cart", err |-> b.err,
                             frame |-> FALSE]
                /\ hist = [n |-> 0, len |-> len, prg |-> prg,
                           read |-> [addr |-> 0, val |-> 0]]

\* a read at the offset of the $FF byte in either half of the window, or
\* one byte further in the first half
ReadPrg ==
    /\ result.err = ""
    /\ hist.n < MaxPrgReads
    /\ LET x == CHOOSE i \in DOMAIN hist.prg : TRUE
       IN \E addr \in {32768 + (x % 16384), 49152 + (x % 16384),
                       32768 + ((x + 1) % 16384)} :
             LET r == MemoryBus_read(cpu, addr)
             IN /\ cpu' = r.cpu
                /\ result' = [call |-> "read", err |-> r.err, frame |-> FALSE]
                /\ hist' = [hist EXCEPT !.n = @ + 1,
                                        !.read = [addr |-> addr, val |-> r.val]]
    /\ UNCHANGED overflow_checks

SpecNrom == InitNrom /\ [][ReadPrg]_vars

(***************************************************************************)
(* The sprite machine: Ppu::tick at dot 257 of a visible scanline, on a    *)
(* PPU with rendering off whose OAM was filled beforehand.  Sprite i has   *)
(* tile number i + 1; count sprites from index first on sit at rows y,     *)
(* y + 1, y + 2, y, ... and all the others at row 255.                     *)
(***************************************************************************)
SpriteOam(first, count, y) ==
    [a \in {4 * i : i \in 0..63} \cup {4 * i + 1 : i \in 0..63} |->
        LET i == a \div 4
        IN IF a % 4 = 1 THEN i + 1
           ELSE IF i \in first..(first + count - 1) THEN y + (i % 3) ELSE 255]

\* OAM without its zero bytes
Sparse(mem) == [a \in {b \in DOMAIN mem : mem[b] # 0} |-> mem[a]]

SpriteRows == {0, 100, 232}

InitSprites ==
    /\ overflow_checks = FALSE
    /\ \E first \in {0, 1, 56}, count \in 0..10, y \in SpriteRows,
          d \in {-1, 0, 1, 7, 8, 9, 15, 17, 18}, size \in {0, 1}, ovf \in {0, 1} :
          /\ first + count <= 64
          /\ y + d \in 0..239
          /\ cpu = [reset(Cpu_new(ProgramCart(ProgStack, EmptyMem),
                                  NoController, NoController)).cpu
                      EXCEPT !.bus.ppu.oam = Sparse(SpriteOam(first, count, y)),
                             !.bus.ppu.scanline = y + d,
                             !.bus.ppu.cycle = 257,
                             !.bus.ppu.reg.control = size * 32,
                             !.bus.ppu.reg.status = ovf * 32]
    /\ result = [call |-> "reset", err |-> "", frame |-> FALSE]
    /\ hist = [n |-> 0]

SpriteTick ==
    /\ result.err = ""
    /\ hist.n < MaxSpriteTicks
    /\ Try(Ppu_tick(cpu),
           LAMBDA c1, t :
              /\ cpu' = c1
              /\ result' = [call |-> "ppu_tick", err |-> "", frame |-> t.frame])
    /\ hist' = [n |-> hist.n + 1]
    /\ UNCHANGED overflow_checks

SpecSprites == InitSprites /\ [][SpriteTick]_vars

(***************************************************************************)
(* What an observer of two consecutive states sees.                        *)
(***************************************************************************)
\* this step is one call of system_tick
IsTick == result'.call = "system_tick" /\ cpu'.num_system_ticks = cpu.num_system_ticks + 1

\* the number of the dot the PPU is at, counted from scanline 0, dot 0
PpuDot(c) ==
    IF c.bus.ppu.scanline = -1 THEN 261 * 341 + c.bus.ppu.cycle
    ELSE c.bus.ppu.scanline * 341 + c.bus.ppu.cycle

\* what only the CPU side changes: the registers and everything behind the
\* bus that no PPU dot writes
CpuSide(c) ==
    <<c.reg, c.bus.ram, c.bus.cart, c.bus.p1, c.bus.p2, c.bus.ppu.oam,
      c.bus.ppu.vram, c.bus.ppu.palettes, c.bus.ppu.reg.control,
      c.bus.ppu.reg.mask, c.bus.ppu.reg.oam_addr, c.bus.ppu.reg.ppu_addr_latch,
      c.bus.ppu.reg.t_addr, c.bus.ppu.reg.fine_x, c.bus.ppu.reg.ppu_data_buffer>>

\* the byte at stack address $0100 + sp, sp taken modulo 256
StackByte(c, sp) == MemGet(c.bus.ram, STACK_OFFSET + (sp % 256))

\* the interrupt entry of the pending interrupt, seen from c to d: the
\* three pushes, I set, PC from the vector, the slot cleared, nothing else
InterruptEntry(c, d, vector, cycles) ==
    LET pushed == StackByte(d, c.reg.sp - 2) IN
    /\ d.reg.sp = (c.reg.sp - 3) % 256
    /\ StackByte(d, c.reg.sp) = hi_byte(c.reg.pc)
    /\ StackByte(d, c.reg.sp - 1) = lo_byte(c.reg.pc)
    /\ pushed = insert(insert(remove(c.reg.status, BREAK), UNUSED), INTERRUPT_DISABLE)
    /\ Bit(pushed, 4) = 0 /\ Bit(pushed, 5) = 1
    /\ contains(d.reg.status, INTERRUPT_DISABLE)
    /\ d.reg.pc = make_address(MemoryBus_read(c, vector).val,
                               MemoryBus_read(c, vector + 1).val)
    /\ d.interrupt = "None"
    /\ d.reg.a = c.reg.a /\ d.reg.x = c.reg.x /\ d.reg.y = c.reg.y
    /\ \A a \in DOMAIN d.bus.ram \cup DOMAIN c.bus.ram :
          a \notin {STACK_OFFSET + ((c.reg.sp - k) % 256) : k \in 0..2}
             => MemGet(d.bus.ram, a) = MemGet(c.bus.ram, a)
    /\ d.cycles_left = cycles - 1

(***************************************************************************)
(* The claims.                                                             *)
(***************************************************************************)
\* C1: after n error-free ticks from construction the PPU has run n dots
\* and the CPU ceil(n/3) cycles (a cycle on the 1st, 4th, 7th, ... tick);
\* the CPU cycle runs before the PPU dot: a tick whose CPU cycle fails
\* returns before its dot.
C1_TickCounts ==
    LET n == cpu.num_system_ticks IN
    IF result.err = ""
    THEN /\ PpuDot(cpu) = n % (262 * 341)
         /\ cpu.num_cpu_cycles = (n + 2) \div 3
    ELSE /\ PpuDot(cpu) = (n - 1) % (262 * 341)
         /\ cpu.num_cpu_cycles = (n + 1) \div 3

C1_Witness ==
    result.err = "" /\ cpu.num_system_ticks = 7 /\ cpu.num_cpu_cycles = 3
    /\ cpu.bus.ppu.cycle = 7

\* C2: an NMI in the interrupt slot stays there through every tick that is
\* not an instruction boundary, and is taken at the boundary.
C2_NmiStaysPending ==
    [][(IsTick /\ cpu.interrupt = "NonMaskable" /\ hist.host_ints = 0
        /\ result'.err = "")
       => IF at_boundary(cpu) THEN hist'.commit.kind = "NonMaskable"
          ELSE cpu'.interrupt = "NonMaskable"]_vars

\* C3: registers and bus change only on a tick on which the remaining-cycle
\* count is 0 at a CPU cycle, and after a step that returned base + extra
\* cycles the count reaches 0 again exactly base + extra CPU cycles later.
C3_InstructionSpacing ==
    [][IsTick =>
         /\ ~at_boundary(cpu) => CpuSide(cpu') = CpuSide(cpu)
         /\ (result'.err = "" /\ hist'.commit.at >= 0)
               => cpu'.num_cpu_cycles + cpu'.cycles_left
                     = hist'.commit.at + hist'.commit.cost]_vars

C3_Witness ==
    /\ result.err = ""
    /\ hist.commit.kind = "Instr" /\ hist.commit.cost = 5
    /\ cpu.reg.a = 1
    /\ cpu.cycles_left = 0
    /\ cpu.num_cpu_cycles = hist.commit.at + 5

\* C4: a tick sets vblank exactly at dot 1 of scanline 241; after the tick
\* at dot 1 of scanline -1 vblank, sprite-zero-hit and sprite-overflow are
\* clear and no other PPU dot clears them (a CPU read of $2002 clears
\* vblank); the tick returns an NMI exactly at dot 1 of scanline 241 with
\* PPUCTRL bit 7 set.
C4_VblankAndClear ==
    [][(IsTick /\ result'.err = "") =>
         LET line == cpu.bus.ppu.scanline
             dot == cpu.bus.ppu.cycle
             before == cpu.bus.ppu.reg.status
             after == cpu'.bus.ppu.reg.status
         IN /\ (line = 241 /\ dot = 1) => Bit(after, 7) = 1
            /\ (Bit(before, 7) = 0 /\ Bit(after, 7) = 1) => (line = 241 /\ dot = 1)
            /\ (line = -1 /\ dot = 1) => GetBits(after, 7, 5) = 0
            /\ (\E b \in 5..6 : Bit(before, b) = 1 /\ Bit(after, b) = 0)
                  => (line = -1 /\ dot = 1)
            /\ (Bit(before, 7) = 1 /\ Bit(after, 7) = 0)
                  => ((line = -1 /\ dot = 1) \/ at_boundary(cpu))
            /\ cpu'.interrupt = "NonMaskable"
                  <=> (line = 241 /\ dot = 1
                       /\ Bit(cpu'.bus.ppu.reg.control, 7) = 1)]_vars

\* C5: a tick returns a frame exactly when it completes dot 340 of scanline
\* 260; two consecutive frames are 262*341 ticks apart, and no more than
\* 262*341 ticks pass without a frame.
C5_FramePeriod ==
    [][(IsTick /\ result'.err = "") =>
         /\ result'.frame <=> (cpu.bus.ppu.scanline = 260 /\ cpu.bus.ppu.cycle = 340)
         /\ hist'.frame_gap \in {0, 262 * 341}
         /\ cpu'.num_system_ticks - hist'.last_frame_tick <= 262 * 341]_vars

C5_Witness ==
    result.frame /\ hist.frame_gap = 262 * 341 /\ cpu.bus.ppu.scanline = -1

\* C6: at an instruction boundary a pending NMI is taken whatever I is, a
\* pending IRQ only with I clear: PCH, PCL and the status with B clear and
\* U set are pushed, I is set, PC comes from $FFFA or $FFFE, the slot is
\* cleared and no instruction runs; an IRQ with I set leaves the step to
\* the next instruction, as if nothing were pending.
C6_InterruptEntry ==
    [][(IsTick /\ at_boundary(cpu) /\ result'.err = "") =>
         CASE cpu.interrupt = "NonMaskable" -> InterruptEntry(cpu, cpu', 65530, 8)
           [] cpu.interrupt = "Request" /\ ~contains(cpu.reg.status, INTERRUPT_DISABLE) ->
                 InterruptEntry(cpu, cpu', 65534, 7)
           [] cpu.interrupt = "Request" /\ contains(cpu.reg.status, INTERRUPT_DISABLE) ->
                 /\ hist'.commit.kind = "Instr"
                 /\ cpu' = system_tick([cpu EXCEPT !.interrupt = "None"]).cpu
           [] OTHER -> TRUE]_vars

C6_Witness ==
    /\ result.err = ""
    /\ hist.commit.kind = "Request"
    /\ hist.commit.at = cpu.num_cpu_cycles - 1
    /\ cpu.reg.pc = 32848

\* C7: reset() leaves PC = (hi << 8) | lo of $FFFC/$FFFD, A = X = Y = 0,
\* SP = $FD, P = $24, writes nothing to memory, and the first instruction
\* step comes after 7 CPU cycles.
C7_Reset ==
    [][/\ (hist'.reset_called /\ ~hist.reset_called /\ result'.err = "") =>
            /\ cpu'.reg = [a |-> 0, x |-> 0, y |-> 0, sp |-> 253, status |-> 36,
                           pc |-> MemoryBus_read(cpu, 65533).val * 256
                                  + MemoryBus_read(cpu, 65532).val]
            /\ cpu'.bus.ram = cpu.bus.ram
       /\ (hist'.reset_called /\ hist'.first_commit_at >= 0)
             => hist'.first_commit_at = 7]_vars

C7_Witness ==
    /\ hist.reset_called /\ hist.first_commit_at = 7
    /\ hist.commit.kind = "Instr" /\ hist.commit.at = 7

\* C8: the Reset pending after Cpu::new, taken on the first tick, pushes
\* nothing (page $01 unchanged, SP = $FD), sets PC from $FFFC/$FFFD,
\* A = X = Y = 0, P = U|I, and takes 7 cycles.
C8_BootReset ==
    [][(IsTick /\ at_boundary(cpu) /\ cpu.interrupt = "Reset" /\ result'.err = "") =>
         /\ cpu'.bus.ram = cpu.bus.ram
         /\ cpu'.reg = [a |-> 0, x |-> 0, y |-> 0, sp |-> 253,
                        status |-> BitOr(UNUSED, INTERRUPT_DISABLE),
                        pc |-> make_address(MemoryBus_read(cpu, 65532).val,
                                            MemoryBus_read(cpu, 65533).val)]
         /\ cpu'.cycles_left = 7 - 1]_vars

\* C9: after an instruction that stores to $4014 the next instruction step
\* is at least 513 CPU cycles away, 514 when the store was at an odd cycle.
C9_DmaStall ==
    (result.err = "" /\ hist.commit.dma /\ cpu.cycles_left = 0)
       => cpu.num_cpu_cycles - hist.commit.at
             >= 513 + (IF hist.commit.at % 2 = 1 THEN 1 ELSE 0)

\* C10: the store of d to $4014 leaves the byte of CPU address (d << 8) + i
\* at OAM[(OAMADDR + i) mod 256], for every i in 0..255.
C10_DmaCopy ==
    [][(IsTick /\ at_boundary(cpu) /\ writes_4014(cpu) /\ result'.err = "") =>
         LET op == fetch_instr(cpu).val.i.op
             d == CASE op = "STA" -> cpu.reg.a
                    [] op = "STX" -> cpu.reg.x
                    [] op = "STY" -> cpu.reg.y
         IN \A i \in 0..255 :
               MemGet(cpu'.bus.ppu.oam, (cpu.bus.ppu.reg.oam_addr + i) % 256)
                  = MemoryBus_read(cpu, make_address(i, d)).val]_vars

\* the MMC1 register that (addr >> 13) & 3 = sel selects
Mmc1Reg(cart, sel) ==
    CASE sel = 0 -> cart.control
      [] sel = 1 -> cart.chr_bank0
      [] sel = 2 -> cart.chr_bank1
      [] sel = 3 -> cart.prg_bank

\* the 5-bit value of five writes: bit 0 of the k-th write is bit k-1
RECURSIVE SerialValue(_)
SerialValue(bytes) ==
    IF bytes = <<>> THEN 0 ELSE (Head(bytes) % 2) + 2 * SerialValue(Tail(bytes))

\* this step is a store to the MMC1 port $8000-$FFFF
IsPortWrite ==
    /\ hist'.n = hist.n + 1
    /\ hist'.last.op = "write" /\ hist'.last.addr >= 32768 /\ hist'.last.err = ""

\* C11: counting the bit-7-clear writes to $8000-$FFFF since the last latch
\* or reset, the 5th one, and no other, latches the five bits (bit 0 of the
\* k-th write in bit k-1) into the register that its address selects, and
\* leaves the write counter and the shift register 0; the write counter is
\* always in 0..4 and the shift register below 32
C11_SerialProtocol ==
    [][IsPortWrite =>
        LET o == hist'.last
            k == Len(hist.serial.bytes)
            cart == cpu.bus.cart
            after == cpu'.bus.cart
            sel == Shr(o.addr, 13) % 4
        IN /\ cart.write_count \in 0..4 /\ cart.shift_reg < 32
           /\ after.write_count \in 0..4 /\ after.shift_reg < 32
           /\ (o.byte < 128 /\ k = 4) =>
                 /\ Mmc1Reg(after, sel) = SerialValue(Append(hist.serial.bytes, o.byte))
                 /\ \A r \in 0..3 : r # sel => Mmc1Reg(after, r) = Mmc1Reg(cart, r)
                 /\ after.write_count = 0 /\ after.shift_reg = 0
           /\ (o.byte < 128 /\ k < 4) =>
                 /\ \A r \in 0..3 : Mmc1Reg(after, r) = Mmc1Reg(cart, r)
                 /\ after.write_count = k + 1]_vars

\* nine writes and no reset: the 5th, to $FFFF, latched 0b10101 into the
\* PRG bank register, and four writes of the next sequence followed
C11_Witness ==
    /\ hist.n = 9
    /\ hist.cut = 0
    /\ hist.serial.bytes = <<126, 1, 0, 1>>
    /\ cpu.bus.cart.prg_bank = 21
    /\ cpu.bus.cart.control = 12
    /\ cpu.bus.cart.write_count = 4

\* C12: a write to $8000-$FFFF with bit 7 set clears the shift register and
\* the write counter and ORs 0x0C into control, whatever was accumulated;
\* the registers change next at the 5th bit-7-clear write after it, to the
\* value of those five writes alone
C12_SerialReset ==
    [][IsPortWrite =>
        LET o == hist'.last
            cart == cpu.bus.cart
            after == cpu'.bus.cart
        IN /\ o.byte >= 128 =>
                 /\ after.shift_reg = 0 /\ after.write_count = 0
                 /\ after.control = BitOr(cart.control, 12)
                 /\ \A r \in 1..3 : Mmc1Reg(after, r) = Mmc1Reg(cart, r)
           /\ (o.byte < 128 /\ \E r \in 0..3 : Mmc1Reg(after, r) # Mmc1Reg(cart, r)) =>
                 /\ Len(hist.serial.bytes) = 4
                 /\ \E r \in 0..3 : Mmc1Reg(after, r) =
                                       SerialValue(Append(hist.serial.bytes, o.byte))]_vars

\* a reset after three writes of a sequence, then five writes that latch
\* 0b10011 into control, which had bits 2 and 3 set by the reset
C12_Witness ==
    /\ hist.cut = 3
    /\ hist.n = 9
    /\ hist.done.bytes = <<1, 1, 0, 0, 1>>
    /\ hist.last.addr = 40959
    /\ cpu.bus.cart.control = 19

\* C13 as stated: the writes 0x01, 0x01, 0x00, 0x01, 0x00 to $8000-$9FFF
\* latch control = 0b01010
C13_LatchScenario ==
    [][(IsPortWrite /\ hist'.done = [bytes |-> <<1, 1, 0, 1, 0>>, low |-> TRUE])
          => cpu'.bus.cart.control = 10]_vars

\* C13, amended: five writes 0x01, 0x01, 0x00, 0x01, 0x00 to $8000-$9FFF that start
\* a sequence latch control = 0b01011 (the first bit written is bit 0) and
\* the banks are recomputed for it: horizontal mirroring, one 8 KiB CHR
\* bank, PRG fixed at bank 0 in $8000 and switched in $C000; a write to
\* $A000 right after them is the first of a new sequence and latches nothing
C13_LatchScenarioFirstBitLow ==
    [][IsPortWrite =>
        LET o == hist'.last
            cart == cpu.bus.cart
            after == cpu'.bus.cart
            scenario == [bytes |-> <<1, 1, 0, 1, 0>>, low |-> TRUE]
        IN /\ hist'.done = scenario =>
                 /\ after.control = 11
                 /\ after.mirror_type = "Horizontal"
                 /\ after.chr_rom_bank_0_base = Shr(after.chr_bank0, 1) * 8192
                 /\ after.chr_rom_bank_1_base = after.chr_rom_bank_0_base + 4096
                 /\ after.prg_rom_bank_0_base = 0
                 /\ after.prg_rom_bank_1_base = (after.prg_bank % 16) * 16384
                 /\ after.write_count = 0 /\ after.shift_reg = 0
           /\ (hist.done = scenario /\ o.addr = 40960 /\ o.byte < 128) =>
                 /\ after.write_count = 1
                 /\ after.shift_reg = (o.byte % 2) * 16
                 /\ \A r \in 0..3 : Mmc1Reg(after, r) = Mmc1Reg(cart, r)
                 /\ hist'.done = NoSerial]_vars

\* the sixth write, to $A000, after the five of the scenario
C13_Witness ==
    /\ hist.n = 6
    /\ hist.last.addr = 40960 /\ hist.last.byte = 1
    /\ hist.prev = NoOp
    /\ cpu.bus.cart.control = 11
    /\ cpu.bus.cart.write_count = 1
    /\ cpu.bus.cart.chr_bank0 = 0

\* this step is a load from or a store to $4016
IsPadAccess ==
    /\ hist'.n = hist.n + 1
    /\ hist'.last.addr = 16406 /\ hist'.last.err = ""

\* C14: while the strobe bit last written is 1 a read of $4016 returns
\* button A as it is held now and leaves the shift register alone; the
\* write that takes the strobe from 1 to 0 latches the buttons, and the
\* k-th of the next 8 reads returns bit k-1 of them (A, B, Select, Start,
\* Up, Down, Left, Right)
C14_ControllerProtocol ==
    [][IsPadAccess =>
        LET o == hist'.last
            pad == cpu.bus.p1
        IN /\ (o.op = "read" /\ hist.strobe) =>
                 /\ o.val = Bit(pad.inputs, 0)
                 /\ cpu'.bus.p1.read_state = pad.read_state
           /\ (o.op = "write" /\ hist.strobe /\ o.byte % 2 = 0) =>
                 cpu'.bus.p1.read_state = pad.inputs
           /\ (o.op = "read" /\ ~hist.strobe /\ hist.latched >= 0 /\ hist.reads < 8) =>
                 o.val = Bit(hist.latched, hist.reads)]_vars

(***************************************************************************)
(* The VRAM port: PPUADDR, PPUDATA, PPUSTATUS and the palette.             *)
(***************************************************************************)
\* a step of the VRAM port machine that is a call of register reg (0..7)
\* which returned Ok
IsPpuCall(op, reg) ==
    /\ hist'.n = hist.n + 1
    /\ hist'.last.op = op /\ hist'.last.err = ""
    /\ hist'.last.addr \in 8192..16383 /\ hist'.last.addr % 8 = reg

\* o is a store to PPUADDR that returned Ok
IsAddrWrite(o) == o.op = "write" /\ o.err = "" /\ o.addr \in 8192..16383 /\ o.addr % 8 = 6

\* the address that the two PPUADDR bytes hi, lo name
AddrOf(hi, lo) == (hi % 64) * 256 + lo

\* C15: when a store of hi to $2006 made with the write latch clear is
\* followed by a store of lo to $2006, v is ((hi & 0x3F) << 8) | lo and the
\* latch is clear; a load from $2007 that follows the pair then leaves v
\* exactly one step further, 1 with PPUCTRL bit 2 clear and 32 with it set.
C15_AddrPairThenRead ==
    [][/\ (IsPpuCall("write", 6) /\ IsAddrWrite(hist.last) /\ ~hist.last.w) =>
             /\ cpu'.bus.ppu.reg.v_addr = AddrOf(hist.last.byte, hist'.last.byte)
             /\ ~cpu'.bus.ppu.reg.ppu_addr_latch
       /\ (/\ IsPpuCall("read", 7)
           /\ IsAddrWrite(hist.last) /\ IsAddrWrite(hist.prev) /\ ~hist.prev.w) =>
             cpu'.bus.ppu.reg.v_addr =
                AddrOf(hist.prev.byte, hist.last.byte)
                + (IF Bit(cpu.bus.ppu.reg.control, 2) = 1 THEN 32 ELSE 1)]_vars

\* PPUCTRL bit 2 was set, $FF and $30 went to $2006 (v = $3F30) and the load
\* from $2007 left v = $3F50
C15_Witness ==
    /\ hist.last.op = "read" /\ hist.last.addr = 8199 /\ hist.last.err = ""
    /\ IsAddrWrite(hist.prev) /\ hist.prev.byte = 48 /\ hist.prev.w
    /\ Bit(cpu.bus.ppu.reg.control, 2) = 1
    /\ cpu.bus.ppu.reg.t_addr = 16176
    /\ cpu.bus.ppu.reg.v_addr = 16208
    /\ ~cpu.bus.ppu.reg.ppu_addr_latch

\* C17: a load from $2007 with v below $3F00 returns what the read buffer
\* held and leaves the byte at v in the buffer; a load with v anywhere in
\* $3F00-$3FFF, $3F00 included, returns the palette byte at v itself.
C17_DataRead ==
    [][IsPpuCall("read", 7) =>
          LET v == cpu.bus.ppu.reg.v_addr
              o == hist'.last
          IN /\ v < 16128 =>
                  /\ o.val = cpu.bus.ppu.reg.ppu_data_buffer
                  /\ cpu'.bus.ppu.reg.ppu_data_buffer = ppu_read(cpu, v).val
             /\ v \in 16128..16383 => o.val = ppu_read(cpu, v).val]_vars

\* the palette entry an address of $3F00-$3FFF names: the address modulo 32,
\* with $10/$14/$18/$1C folded onto $00/$04/$08/$0C
PaletteEntry(a) == IF a % 32 \in {16, 20, 24, 28} THEN (a % 32) - 16 ELSE a % 32

\* C18: with greyscale off a byte stored through $2007 at a palette address
\* is what every address of $3F00-$3FFF naming the same entry (equal modulo
\* 32, $3F10/$3F14/$3F18/$3F1C and their mirrors folded onto
\* $3F00/$3F04/$3F08/$3F0C) reads back.
C18_PaletteAliases ==
    [][(/\ IsPpuCall("write", 7)
        /\ cpu.bus.ppu.reg.v_addr \in 16128..16383
        /\ Bit(cpu.bus.ppu.reg.mask, 0) = 0) =>
          \A a \in 16128..16383 :
             PaletteEntry(a) = PaletteEntry(cpu.bus.ppu.reg.v_addr) =>
                ppu_read(cpu', a).val = hist'.last.byte]_vars

(***************************************************************************)
(* PPUSTATUS as the instructions of a program read it.                     *)
(***************************************************************************)
\* the tick runs the instruction at PC, which is one of ops with an
\* absolute address on PPU register reg (any mirror)
RunsOnPpuReg(ops, reg) ==
    /\ IsTick /\ result'.err = "" /\ at_boundary(cpu) /\ ~takes_interrupt(cpu)
    /\ LET f == decode_instr(cpu) IN
       /\ f.err = "" /\ f.val.op \in ops /\ f.val.mode = "Absolute"
       /\ f.val.arg \in 8192..16383 /\ f.val.arg % 8 = reg

\* the last PPU register access was a load from PPUSTATUS
AfterStatusRead == hist.access.op = "LDA" /\ hist.access.reg = 2

\* the dot at scanline 241, dot 1 ran in one of the ticks since the last
\* PPU register access
VblankSince ==
    (PpuDot(cpu) - (241 * 341 + 1)) \in 1..(cpu.num_system_ticks - hist.access.at)

\* C16: a load from $2002 or a mirror returns bits 7..5 of the status
\* register with the low 5 bits of the read buffer and leaves the vblank
\* flag clear (the dot at scanline 241, dot 1, which runs after the CPU in
\* the same tick, may set it anew) and the write latch clear; a load that
\* directly follows another, no vertical blank having begun in between,
\* returns bit 7 clear; a store to $2006 that follows the load is a first
\* write: it sets the high byte of t, leaves v alone and sets the latch.
C16_StatusRead ==
    [][/\ RunsOnPpuReg({"LDA"}, 2) =>
            /\ cpu'.reg.a = BitAnd(cpu.bus.ppu.reg.status, 224)
                            + (cpu.bus.ppu.reg.ppu_data_buffer % 32)
            /\ ~cpu'.bus.ppu.reg.ppu_addr_latch
            /\ (Bit(cpu'.bus.ppu.reg.status, 7) = 1 =>
                   cpu.bus.ppu.scanline = 241 /\ cpu.bus.ppu.cycle = 1)
            /\ (AfterStatusRead /\ ~VblankSince => cpu'.reg.a < 128)
       /\ (RunsOnPpuReg({"STA"}, 6) /\ AfterStatusRead) =>
            /\ cpu'.bus.ppu.reg.t_addr =
                  (cpu.bus.ppu.reg.t_addr % 256) + (cpu.reg.a % 64) * 256
            /\ cpu'.bus.ppu.reg.v_addr = cpu.bus.ppu.reg.v_addr
            /\ cpu'.bus.ppu.reg.ppu_addr_latch]_vars

\* the poll saw bit 7 set, the load from $200A after it returned $3F (bit 7
\* clear, sprite overflow set, the buffer holding $FF) and the store of it
\* to $2006, the second store since reset, was taken as a first write: t
\* went from $2100 to $3F00
C16_Witness ==
    /\ result.err = ""
    /\ cpu.reg.pc = 32791 /\ cpu.reg.a = 63
    /\ hist.access.op = "STA" /\ hist.access.reg = 6
    /\ cpu.bus.ppu.reg.t_addr = 16128
    /\ cpu.bus.ppu.reg.v_addr = 1
    /\ cpu.bus.ppu.reg.ppu_addr_latch
    /\ Bit(cpu.bus.ppu.reg.status, 7) = 0
    /\ cpu.bus.ppu.scanline = 241

(***************************************************************************)
(* OAM through OAMADDR, OAMDATA and OAMDMA.                                *)
(***************************************************************************)
\* C19: in every state bits 2-4 of the attribute byte (byte 2) of each of
\* the 64 sprites are 0 in OAM, which is what a load from $2004 returns,
\* whether OAM DMA or a store to $2004 put the byte there.
C19_AttributeBits ==
    \A sprite \in 0..63 : BitAnd(MemGet(cpu.bus.ppu.oam, 4 * sprite + 2), 28) = 0

\* C20: a store to $2004 puts the byte at OAM[OAMADDR] and leaves OAMADDR
\* one higher (modulo 256); a load from $2004 returns OAM[OAMADDR] and
\* leaves OAMADDR and OAM as they are.
C20_OamData ==
    [][LET reg == cpu.bus.ppu.reg IN
       /\ IsPpuCall("write", 4) =>
             /\ MemGet(cpu'.bus.ppu.oam, reg.oam_addr) = hist'.last.byte
             /\ cpu'.bus.ppu.reg.oam_addr = (reg.oam_addr + 1) % 256
       /\ IsPpuCall("read", 4) =>
             /\ hist'.last.val = MemGet(cpu.bus.ppu.oam, reg.oam_addr)
             /\ cpu'.bus.ppu.reg.oam_addr = reg.oam_addr
             /\ cpu'.bus.ppu.oam = cpu.bus.ppu.oam]_vars

(***************************************************************************)
(* Single instructions: BRK, the stack, the U flag, index and branch       *)
(* timing.                                                                 *)
(***************************************************************************)
\* the step is run_next_instr on the instruction whose opcode byte (at PC)
\* is op
Attempts(op) ==
    /\ hist'.n = hist.n + 1 /\ ~takes_interrupt(cpu)
    /\ result'.call = "run_next_instr"
    /\ is_ok(MemoryBus_read(cpu, cpu.reg.pc), op)

\* the same, and the instruction returned Ok
RunsOpcode(op) == Attempts(op) /\ result'.err = ""

\* C21: BRK pushes the return address (PC + 2, PC being past the opcode,
\* high byte first), then a status byte with B (bit 4) and U (bit 5) set,
\* sets I and loads PC from $FFFE/$FFFF.
C21_Brk ==
    [][RunsOpcode(0) =>
          LET sp == cpu.reg.sp
              ret == cpu.reg.pc + 3
              pushed == StackByte(cpu', sp - 2)
          IN /\ StackByte(cpu', sp) = hi_byte(ret)
             /\ StackByte(cpu', sp - 1) = lo_byte(ret)
             /\ Bit(pushed, 4) = 1 /\ Bit(pushed, 5) = 1
             /\ cpu'.reg.sp = (sp - 3) % 256
             /\ contains(cpu'.reg.status, INTERRUPT_DISABLE)
             /\ cpu'.reg.pc = make_address(MemoryBus_read(cpu, 65534).val,
                                           MemoryBus_read(cpu, 65535).val)]_vars

\* C22: in every state of the CPU (as constructed and prepared, after
\* reset, after an NMI or IRQ entry, after every instruction, PLP and RTI
\* pulling bytes with U clear among them) the U bit (0x20) of P is set.
C22_UnusedSet == contains(cpu.reg.status, UNUSED)

\* PLP pulled $CF, a byte with U clear and B set, and P is $E7
C22_Witness ==
    /\ result.call = "run_next_instr" /\ result.err = "" /\ hist.n = 1
    /\ MemGet(cpu.bus.ram, 512) = 40 /\ cpu.reg.pc = 513
    /\ StackByte(cpu, cpu.reg.sp) = 207
    /\ cpu.reg.status = 231

\* C23: a push (PHA) stores the byte at $0100 + SP and leaves SP one lower,
\* a pull (PLA) leaves SP one higher and reads $0100 + SP there; SP wraps
\* modulo 256 (push at $00 gives $FF, pull at $FF gives $00) and neither
\* ends in an error.
C23_StackWraps ==
    [][/\ Attempts(72) =>
            /\ result'.err = ""
            /\ StackByte(cpu', cpu.reg.sp) = cpu.reg.a
            /\ cpu'.reg.sp = (cpu.reg.sp - 1) % 256
       /\ Attempts(104) =>
            /\ result'.err = ""
            /\ cpu'.reg.sp = (cpu.reg.sp + 1) % 256
            /\ cpu'.reg.a = StackByte(cpu, cpu.reg.sp + 1)]_vars

\* C24: for all a, m in 0..255 and c in {0, 1}, ADC from A = a, C = c and
\* operand m leaves A = (a + m + c) & 0xFF, C = (a + m + c > 0xFF),
\* V = (((a ^ r) & (m ^ r) & 0x80) # 0) with r the new A, Z = (r = 0) and
\* N = bit 7 of r.
C24_Adc ==
    [][Attempts(105) =>
         LET a == cpu.reg.a
             m == MemGet(cpu.bus.ram, cpu.reg.pc + 1)
             sum == a + m + (IF contains(cpu.reg.status, CARRY) THEN 1 ELSE 0)
             r == cpu'.reg.a
             p == cpu'.reg.status
         IN /\ result'.err = ""
            /\ r = sum % 256
            /\ contains(p, CARRY) <=> sum > 255
            /\ contains(p, OVERFLOW)
                 <=> BitAnd(BitAnd(BitXor(a, r), BitXor(m, r)), 128) # 0
            /\ contains(p, ZERO) <=> r = 0
            /\ contains(p, NEGATIVE) <=> Bit(r, 7) = 1]_vars

\* 0x50 + 0x50 with the carry clear: the result 0xA0 is negative, the signed
\* overflow flag is set and the carry is clear
C24_Witness ==
    /\ result.call = "run_next_instr" /\ result.err = "" /\ hist.n = 1
    /\ MemGet(cpu.bus.ram, 512) = 105 /\ MemGet(cpu.bus.ram, 513) = 80
    /\ cpu.reg.pc = 514 /\ cpu.reg.a = 160
    /\ cpu.reg.status = 228

\* C25: for every addr and every X, fetching and executing LDA addr,X
\* (opcode $BD) advances PC by 3 and reports exactly 1 extra cycle (5 in
\* all) if (addr & 0xFF00) # ((addr + X) & 0xFF00) and none (4 in all)
\* otherwise, the sum being taken as a 16-bit value.
C25_IndexedLoad ==
    [][Attempts(189) =>
         LET addr == make_address(MemGet(cpu.bus.ram, cpu.reg.pc + 1),
                                  MemGet(cpu.bus.ram, cpu.reg.pc + 2))
             sum == (addr + cpu.reg.x) % 65536
         IN /\ result'.err = ""
            /\ cpu'.reg.pc = cpu.reg.pc + 3
            /\ hist'.cost = 4 + (IF page_num(addr) # page_num(sum) THEN 1 ELSE 0)]_vars

\* the flag a branch opcode tests, and the value of the flag that takes it
BranchFlag(op) ==
    CASE op \in {16, 48} -> NEGATIVE
      [] op \in {80, 112} -> OVERFLOW
      [] op \in {144, 176} -> CARRY
      [] op \in {208, 240} -> ZERO
BranchTaken(op, status) == contains(status, BranchFlag(op)) <=> (op \div 32) % 2 = 1

\* C26: a branch that is not taken adds 0 cycles to its 2 and leaves PC just
\* past its operand; a taken branch sets PC to that address plus the signed
\* 8-bit offset and adds 1 cycle, or 2 cycles when the target lies in a
\* different 256-byte page from the address just past the operand.
C26_Branch ==
    [][\A op \in {16, 48, 80, 112, 144, 176, 208, 240} :
          Attempts(op) =>
            LET past == cpu.reg.pc + 2
                operand == MemGet(cpu.bus.ram, cpu.reg.pc + 1)
                target == past + (IF operand < 128 THEN operand ELSE operand - 256)
            IN /\ result'.err = ""
               /\ IF BranchTaken(op, cpu.reg.status)
                  THEN /\ cpu'.reg.pc = target
                       /\ hist'.cost = 2 + (IF page_num(target) # page_num(past)
                                            THEN 2 ELSE 1)
                  ELSE /\ cpu'.reg.pc = past
                       /\ hist'.cost = 2]_vars

\* BCC $05 at PC = $01FD with the carry clear has ended at $0204 after 4
\* cycles
C26_Witness ==
    /\ result.call = "run_next_instr" /\ result.err = "" /\ hist.n = 1
    /\ MemGet(cpu.bus.ram, 509) = 144 /\ MemGet(cpu.bus.ram, 510) = 5
    /\ ~contains(cpu.reg.status, CARRY)
    /\ cpu.reg.pc = 516 /\ hist.cost = 4

\* the run is PHA at $0200 then PLA at $0201, nothing else in between
PhaThenPla ==
    /\ MemGet(cpu.bus.ram, 512) = 72 /\ MemGet(cpu.bus.ram, 513) = 104
    /\ result.call \in {"new", "run_next_instr"}

\* C27: for every value of A and every SP, executing PHA and then PLA
\* leaves A and SP equal to their values before the PHA, and afterwards
\* Z = (A = 0) and N = bit 7 of A.
C27_PhaPla ==
    PhaThenPla =>
        /\ result.err = ""
        /\ hist.n = 2 =>
             /\ cpu.reg.a = hist.a /\ cpu.reg.sp = hist.sp
             /\ contains(cpu.reg.status, ZERO) <=> cpu.reg.a = 0
             /\ contains(cpu.reg.status, NEGATIVE) <=> Bit(cpu.reg.a, 7) = 1

\* C28: on odd frames, when background rendering is enabled, dot 0 of
\* scanline 0 is skipped, so that the frame takes one system tick fewer
\* than the 262*341 of an even frame.
C28_OddFrameSkip ==
    [][(/\ IsTick /\ result'.frame
        /\ hist.last_frame_tick > 0
        /\ cpu.bus.ppu.odd_frame
        /\ Bit(cpu.bus.ppu.reg.mask, 3) = 1)
         => hist'.frame_gap = 262 * 341 - 1]_vars

\* the nametable (0..3) of an address of the window, and the nametables
\* that share their bytes under vertical and under horizontal mirroring
TableOf(addr) == (addr % 4096) \div 1024
SharesVertical(a, b) == TableOf(a) % 2 = TableOf(b) % 2
SharesHorizontal(a, b) == TableOf(a) \div 2 = TableOf(b) \div 2

\* C29: under vertical mirroring $2000+off and $2800+off are one VRAM byte
\* (index off) and $2400+off and $2C00+off one other (index $400+off);
\* under horizontal mirroring $2000+off and $2400+off are index off and
\* $2800+off and $2C00+off index $400+off; the index is below $800 for
\* every address and mirroring.
C29_Mirroring ==
    [][LET off == hist.addr % 1024
           m == MirrorOf(cpu)
           vram == cpu'.bus.ppu.vram
       IN /\ result'.err = ""
          /\ result'.call = "ppu_write" =>
               /\ \A i \in DOMAIN vram : i < 2048
               /\ m = "Vertical" =>
                    DOMAIN vram = {IF TableOf(hist.addr) \in {0, 2} THEN off
                                   ELSE 1024 + off}
               /\ m = "Horizontal" =>
                    DOMAIN vram = {IF TableOf(hist.addr) \in {0, 1} THEN off
                                   ELSE 1024 + off}
          /\ (result'.call = "ppu_read" /\ cpu.bus.ppu.vram # EmptyMem) =>
               /\ m = "Vertical" =>
                    (hist'.read.val = 255
                       <=> SharesVertical(hist.addr, hist'.read.addr))
               /\ m = "Horizontal" =>
                    (hist'.read.val = 255
                       <=> SharesHorizontal(hist.addr, hist'.read.addr))]_vars

\* vertical mirroring: the byte written at $2405 has been read at $2C05,
\* and it is VRAM byte $405
C29_Witness ==
    /\ MirrorOf(cpu) = "Vertical"
    /\ hist.addr = 9221 /\ hist.read = [addr |-> 11269, val |-> 255]
    /\ DOMAIN cpu.bus.ppu.vram = {1029}

\* C30: with 16 KiB of PRG-ROM a CPU read at addr in $8000-$FFFF returns
\* PRG[addr & 0x3FFF] (so $8000+x and $C000+x read the same byte), with
\* 32 KiB it returns PRG[addr & 0x7FFF]; a PRG array of any other size is
\* refused at construction.
C30_NromPrg ==
    /\ result.call = "build_nrom_cart" =>
          (result.err = "" <=> hist.len \in {16 * 1024, 32 * 1024})
    /\ result.call = "read" =>
          /\ result.err = ""
          /\ hist.len = 16 * 1024 =>
                hist.read.val = MemGet(hist.prg, hist.read.addr % 16384)
          /\ hist.len = 32 * 1024 =>
                hist.read.val = MemGet(hist.prg, hist.read.addr % 32768)

\* 32 KiB with PRG[$4017] = $FF: the read at $C017 has returned it
C30_Witness ==
    /\ result.call = "read" /\ result.err = ""
    /\ hist.len = 32768 /\ hist.prg = (16407 :> 255)
    /\ hist.read = [addr |-> 49175, val |-> 255]

\* the opcode bytes the matrix assigns to an opcode
BytesOf(opcode) == {b \in 0..255 : LOOKUP[b + 1][1] = opcode}

\* C31: the opcode matrix assigns at least one byte to LAX, so that LAX can
\* be fetched and executed; only the unassigned entries fail, with
\* InvalidOpcode and without executing anything (PC is past the byte, the
\* other registers and the RAM are as they were).
C31_OpcodeMatrix ==
    [][\A b \in 0..255 :
          Attempts(b) =>
            /\ BytesOf("LAX") # {}
            /\ result'.err # "" =>
                 /\ b \in BytesOf("INVALID")
                 /\ result'.err = "InvalidOpcode"
            /\ b \in BytesOf("INVALID") =>
                 /\ result'.err = "InvalidOpcode"
                 /\ cpu'.reg = [cpu.reg EXCEPT !.pc = @ + 1]
                 /\ cpu'.bus = cpu.bus]_vars

\* C32: in every reachable PPU state the scanline counter is in [-1, 260]
\* and the dot counter in [0, 340]; a tick takes the dot counter from 340
\* to 0 with the scanline one further, the scanline after 260 being -1, and
\* any other dot to the next one of the same scanline.
C32_Counters ==
    [][/\ cpu'.bus.ppu.scanline \in -1..260
       /\ cpu'.bus.ppu.cycle \in 0..340
       /\ (IsTick /\ result'.err = "") =>
            IF cpu.bus.ppu.cycle = 340
            THEN /\ cpu'.bus.ppu.cycle = 0
                 /\ cpu'.bus.ppu.scanline =
                       IF cpu.bus.ppu.scanline = 260 THEN -1
                       ELSE cpu.bus.ppu.scanline + 1
            ELSE /\ cpu'.bus.ppu.cycle = cpu.bus.ppu.cycle + 1
                 /\ cpu'.bus.ppu.scanline = cpu.bus.ppu.scanline]_vars

\* the pre-render scanline follows scanline 260, and scanline 0 follows it
C32_Witness ==
    /\ cpu.bus.ppu.scanline = 0 /\ cpu.bus.ppu.cycle = 0
    /\ cpu.bus.ppu.odd_frame
    /\ cpu.num_system_ticks = 261 * 341 + 341

\* the OAM indices of the sprites on the scanline the PPU is at, and the
\* k-th of a set of indices in OAM order
OnScanline(c) ==
    {i \in 0..63 :
        (c.bus.ppu.scanline - oam_read(c, i).y)
            \in 0..((IF Bit(c.bus.ppu.reg.control, 5) = 1 THEN 16 ELSE 8) - 1)}
Nth(indices, k) ==
    CHOOSE i \in indices : Cardinality({j \in indices : j < i}) = k - 1

\* C33: the evaluation at dot 257 of a visible scanline keeps, in OAM
\* order, the first 8 sprites with scanline - y in [0, height), height 8 or
\* 16 by PPUCTRL bit 5; it sets sprite-overflow exactly when a 9th such
\* sprite exists; a kept sprite is marked sprite zero exactly when it is
\* OAM index 0; the pending list never holds more than 8 entries.
C33_SpriteEvaluation ==
    [][(result'.call = "ppu_tick" /\ cpu.bus.ppu.cycle = 257) =>
         LET on == OnScanline(cpu)
             kept == cpu'.bus.ppu.fg.scanline_sprites
         IN /\ Len(kept) = IF Cardinality(on) > 8 THEN 8 ELSE Cardinality(on)
            /\ \A k \in 1..Len(kept) :
                  /\ kept[k].sprite = oam_read(cpu, Nth(on, k))
                  /\ kept[k].row_offset
                        = cpu.bus.ppu.scanline - oam_read(cpu, Nth(on, k)).y
                  /\ kept[k].is_sprite_zero <=> Nth(on, k) = 0
            /\ Bit(cpu'.bus.ppu.reg.status, 5) = 1
                  <=> (Bit(cpu.bus.ppu.reg.status, 5) = 1 \/ Cardinality(on) >= 9)]_vars

\* nine 16-row sprites from index 0 on are on scanline 115: eight are kept,
\* the first of them sprite zero, and the overflow flag went up
C33_Witness ==
    /\ result.call = "ppu_tick" /\ cpu.bus.ppu.cycle = 258
    /\ cpu.bus.ppu.scanline = 115 /\ cpu.bus.ppu.reg.control = 32
    /\ Cardinality(OnScanline(cpu)) = 9
    /\ Len(cpu.bus.ppu.fg.scanline_sprites) = 8
    /\ cpu.bus.ppu.fg.scanline_sprites[1].is_sprite_zero
    /\ cpu.bus.ppu.reg.status = 32

\* C34: while background and sprite rendering are both disabled in PPUMASK
\* no PPU tick changes v (no coarse-X/Y increment, no copy from t at dots
\* 256, 257 or 280-304): v changes only in a tick whose instruction
\* accesses $2006 or $2007.
C34_IdleAddress ==
    [][(/\ IsTick /\ result'.err = ""
        /\ ~rendering_enabled(cpu) /\ ~rendering_enabled(cpu')
        /\ cpu'.bus.ppu.reg.v_addr # cpu.bus.ppu.reg.v_addr)
         => /\ hist'.access.at = cpu.num_system_ticks
            /\ hist'.access.reg \in {6, 7}]_vars

\* rendering is off, t ($0521) differs from v ($2122) in its vertical and
\* horizontal bits, and dots 280-304 of the pre-render scanline are over
C34_Witness ==
    /\ cpu.bus.ppu.scanline = -1 /\ cpu.bus.ppu.cycle = 305
    /\ ~rendering_enabled(cpu)
    /\ cpu.bus.ppu.reg.v_addr = 8482 /\ cpu.bus.ppu.reg.t_addr = 1313

\* the run took the interrupt that was pending at its start and then ran
\* the handler, a single RTI
InterruptThenRti ==
    /\ hist.n = 2 /\ result.call = "run_next_instr" /\ result.err = ""
    /\ \/ hist.interrupt = "NonMaskable"
       \/ hist.interrupt = "Request" /\ ~contains(hist.status, INTERRUPT_DISABLE)

\* C35: taking an NMI or IRQ and then executing RTI restores PC, SP and the
\* flags C, Z, I, D, V, N (bits 0, 1, 2, 3, 6, 7 of P) to their values at
\* the moment the interrupt was taken; an IRQ taken with I clear returns
\* with I clear.
C35_InterruptReturn ==
    InterruptThenRti =>
        /\ cpu.reg.pc = hist.pc
        /\ cpu.reg.sp = hist.sp
        /\ \A b \in {0, 1, 2, 3, 6, 7} : Bit(cpu.reg.status, b) = Bit(hist.status, b)

\* the length of the memory the pattern tables of cart are in
ChrLen(cart) == IF cart.chr_rom_len = 0 THEN 8192 ELSE cart.chr_rom_len

\* C36: for every sequence of MMC1 register writes and every PRG-ROM size
\* that is a positive multiple of 16 KiB, each CPU read in $8000-$FFFF
\* indexes inside PRG-ROM and each PPU read or write in $0000-$1FFF indexes
\* inside the CHR-ROM (or the 8 KiB CHR-RAM): no access falls outside the
\* memory.
C36_BankBounds ==
    [][/\ result'.call = "read" =>
             /\ map_cpu_addr(cpu.bus.cart, hist'.addr) \in 0..(cpu.bus.cart.prg_rom_len - 1)
             /\ result'.err = ""
       /\ result'.call \in {"ppu_read", "ppu_write"} =>
             /\ map_chr_addr(cpu.bus.cart, hist'.addr) \in 0..(ChrLen(cpu.bus.cart) - 1)
             /\ result'.err # "panic"]_vars

\* P as the 6502 loads it from the pulled byte: C, Z, I, D, V, N from the
\* byte, B clear, U set
Pulled(byte) == BitOr(BitAnd(byte, 207), 32)

\* C37: PLP and RTI complete without failure for every byte pulled from
\* the stack, loading C, Z, I, D, V, N from that byte and leaving B clear
\* and U set.
C37_PullStatus ==
    [][\A op \in {40, 64} :
          Attempts(op) =>
             /\ result'.err = ""
             /\ cpu'.reg.status = Pulled(StackByte(cpu, (cpu.reg.sp + 1) % 256))]_vars

\* the masks of the eight flags C, Z, I, D, B, U, V, N
FlagMasks == <<CARRY, ZERO, INTERRUPT_DISABLE, DECIMAL, BREAK, UNUSED, OVERFLOW, NEGATIVE>>

\* C38: the eight status flags occupy eight distinct bits of P, so SED
\* ($F8) and CLD ($D8) change only the D flag, leaving I and every other
\* status bit unchanged, and SEI ($78) and CLI ($58) leave D unchanged.
C38_DistinctFlags ==
    [][/\ \A op \in {248, 216} :
             RunsOpcode(op) =>
                /\ \A i, j \in 1..8 : i # j => BitAnd(FlagMasks[i], FlagMasks[j]) = 0
                /\ contains(cpu'.reg.status, DECIMAL) <=> op = 248
                /\ \A i \in {1, 2, 3, 5, 6, 7, 8} :
                      contains(cpu'.reg.status, FlagMasks[i])
                          <=> contains(cpu.reg.status, FlagMasks[i])
       /\ \A op \in {120, 88} :
             RunsOpcode(op) =>
                /\ contains(cpu'.reg.status, INTERRUPT_DISABLE) <=> op = 120
                /\ contains(cpu'.reg.status, DECIMAL) <=> contains(cpu.reg.status, DECIMAL)]_vars

\* C39: after any sequence of PPU register accesses, v fits in 15 bits and
\* a PPUDATA ($2007) read or write never fails with InvalidAddress:
\* accesses that increment v past $3FFF keep addressing PPU memory modulo
\* $4000.
C39_DataAddress ==
    [][/\ cpu'.bus.ppu.reg.v_addr \in 0..32767
       /\ (hist'.n = hist.n + 1 /\ hist'.last.addr = 8199) =>
             /\ result'.err # "InvalidAddress"
             /\ hist'.last.op = "read" =>
                   cpu'.bus.ppu.reg.ppu_data_buffer =
                       ppu_read(cpu, cpu.bus.ppu.reg.v_addr % 16384).val]_vars

\* C40: for every byte written to palette RAM through PPUDATA, the PPU
\* ticks that follow with rendering enabled succeed: the colour lookup of
\* a pixel never fails, so no palette content makes system_tick return an
\* error.
C40_PaletteColor ==
    [][result'.call = "system_tick" => result'.err = ""]_vars

====
